---- MODULE Spec2Model ----
(***************************************************************************)
(* Model of mccc::AsyncBus (message_bus.hpp): the lock-free MPSC ring,     *)
(* priority admission control, statistics and the batch consumer.          *)
(*                                                                         *)
(* Every access to the ring (producer_pos_, consumer_pos_,                 *)
(* cached_consumer_pos_, next_msg_id_, a slot's sequence or envelope) is   *)
(* one step, interleaved in a sequentially consistent order.  A step also  *)
(* carries the thread-local work that follows it, and the relaxed          *)
(* fetch_add of the statistics counters on the way to a return.            *)
(* Positions and slot sequences are unsigned integers of PosBits bits      *)
(* (the code has 32); the number of Publish calls is bounded so that the   *)
(* producer position never travels a full 2^PosBits during one call.       *)
(* Message ids are unsigned integers of IdBits bits (the code has 64).     *)
(* Every envelope carries the payload <<t, n>> of the n-th Publish call of *)
(* producer t, which holds alternative n mod MCCC_MAX_MESSAGE_TYPES of the *)
(* payload variant.  Subscribe, Unsubscribe and DispatchMessage hold       *)
(* callback_mutex_ for their whole body and are one step each; a callback  *)
(* is known by the id Subscribe gave it.                                   *)
(***************************************************************************)
EXTENDS Integers, Sequences, FiniteSets, TLC

\* ------------------------------------------------------------ bounds
\* producer threads
NumProducers == 2
\* Publish calls of the first producer when the producers run concurrently
MaxCalls == 2
\* Publish calls of every other producer
MaxOtherCalls == 1
\* Publish calls of a producer that runs alone
MaxSoloCalls == 4
\* width of a position and of a slot sequence (32 in the source)
PosBits == 5
\* envelopes drained by one ProcessBatch (1024 in the source)
BATCH_PROCESS_SIZE == 3
\* width of a message id (64 in the source)
IdBits == 7
\* distance of MSG_ID_WRAP_THRESHOLD from the largest id (10000 in the source)
WrapMargin == 4
\* alternatives of the payload variant with a callback slot (8 in the source)
MCCC_MAX_MESSAGE_TYPES == 2
\* entries of a callback slot (16 in the source)
MCCC_MAX_CALLBACKS_PER_TYPE == 2
\* SetPerformanceMode calls made while the bus is in use
MaxSwitches == 1
\* Subscribe calls
MaxSubscriptions == 2
\* Unsubscribe calls
MaxUnsubscriptions == 2
\* capacity of a component's handle vector (16 in the source)
MCCC_MAX_SUBSCRIPTIONS_PER_COMPONENT == 1
\* SubscribeSafe and SubscribeSimple calls of a component
MaxComponentSubscriptions == 2
\* the largest reading of the clock
MaxClock == 1
\* the largest timestamp a caller of PublishFast supplies
MaxTimestamp == 2
\* PublishFast calls
MaxFastCalls == 2
\* Publish calls of the producer that fills the ring of 8 slots
MaxFillCalls == 8

\* ResetStatistics and GetStatistics calls of the application
MaxResets == 1
MaxQueries == 2
\* Publish calls of the producer whose statistics are reset
MaxStatisticsCalls == 2

\* Publish calls of the producer of the single-producer build
MaxSingleProducerCalls == 2

\* ------------------------------------------------------------ state
VARIABLES
    MCCC_QUEUE_DEPTH,      \* the compile-time ring capacity, fixed by Init
    MCCC_SINGLE_PRODUCER,  \* the compile-time choice of the claim path, fixed
                           \* by Init: 1 = store, 0 = compare_exchange loop
    budget,                \* Publish calls each producer still makes
    levels,                \* the priorities the producers publish at
    ring_buffer_,          \* [Slots -> [sequence, header, payload]]
    producer_pos_,
    cached_consumer_pos_,
    consumer_pos_,
    next_msg_id_,
    performance_mode_,
    stats_,
    pc,                    \* [Producers -> position inside PublishInternal]
    loc,                   \* [Producers -> locals of PublishInternal]
    cpc,                   \* position of the consumer inside ProcessBatch
    cloc,                  \* locals of ProcessBatch
    calls,                 \* history: Publish calls made by each producer
    call,                  \* history: what each Publish call asked for and got
    obs,                   \* history: what the call in flight has seen so far
    dispatched,            \* history: envelopes handed to DispatchMessage
    control,               \* control calls the application still makes
    error_callback_,
    callback_table_,       \* [type index -> [entry -> [id, active]]]
    next_callback_id_,
    handles,               \* history: the handles Subscribe has returned
    subscribed,            \* history: the handles of the subscriptions in force
    returned,              \* history: what the last control call has returned
    handles_,              \* Component::handles_ of the application's component
    component,             \* whether that component lives, whether the
                           \* application holds its shared_ptr, and (history)
                           \* the handles its subscriptions were given
    resets                 \* history: the ResetStatistics calls made

\* ------------------------------------------------------------ configuration
MAX_QUEUE_DEPTH == MCCC_QUEUE_DEPTH
BUFFER_SIZE == MCCC_QUEUE_DEPTH
PosMod == 2 ^ PosBits

LOW_PRIORITY_THRESHOLD == (MAX_QUEUE_DEPTH * 60) \div 100
MEDIUM_PRIORITY_THRESHOLD == (MAX_QUEUE_DEPTH * 80) \div 100
HIGH_PRIORITY_THRESHOLD == (MAX_QUEUE_DEPTH * 99) \div 100

\* std::numeric_limits<uint64_t>::max() - 10000
MSG_ID_WRAP_THRESHOLD == (2 ^ IdBits - 1) - WrapMargin

Producers == 1 .. NumProducers
Slots == 0 .. (BUFFER_SIZE - 1)

MessagePriority == {"LOW", "MEDIUM", "HIGH"}
PerformanceMode == {"FULL_FEATURED", "BARE_METAL", "NO_STATS"}
BusError == {"QUEUE_FULL", "INVALID_MESSAGE", "PROCESSING_ERROR", "OVERFLOW_DETECTED"}

\* the values of error_callback_: none, or the application's handler
ErrorCallbacks == {"nullptr", "OnError"}

TypeIndexes == 0 .. (MCCC_MAX_MESSAGE_TYPES - 1)
Entries == 0 .. (MCCC_MAX_CALLBACKS_PER_TYPE - 1)


\* unsigned arithmetic of the position width
U32(x) == x % PosMod
\* pos & BUFFER_MASK
SlotOf(pos) == pos % BUFFER_SIZE

\* mutant: HIGH is dropped only when the queue is full
GetThresholdForPriority_HighFull(priority) ==
    CASE priority = "HIGH" -> MAX_QUEUE_DEPTH
      [] priority = "MEDIUM" -> MEDIUM_PRIORITY_THRESHOLD
      [] OTHER -> LOW_PRIORITY_THRESHOLD

GetThresholdForPriority(priority) ==
    CASE priority = "HIGH" -> HIGH_PRIORITY_THRESHOLD
      [] priority = "MEDIUM" -> MEDIUM_PRIORITY_THRESHOLD
      [] OTHER -> LOW_PRIORITY_THRESHOLD

IsBareMetal(mode) == mode = "BARE_METAL"
IsNoStats(mode) == mode = "BARE_METAL" \/ mode = "NO_STATS"

confVars == <<MCCC_QUEUE_DEPTH, MCCC_SINGLE_PRODUCER, budget, levels, control>>
tableVars == <<error_callback_, callback_table_, next_callback_id_, handles,
               subscribed, returned, handles_, component, resets>>
progVars == <<ring_buffer_, producer_pos_, cached_consumer_pos_, consumer_pos_,
              next_msg_id_, performance_mode_, stats_>>
histVars == <<calls, call, obs, dispatched>>
vars == <<MCCC_QUEUE_DEPTH, MCCC_SINGLE_PRODUCER, budget, levels, ring_buffer_,
          producer_pos_,
          cached_consumer_pos_, consumer_pos_, next_msg_id_, performance_mode_,
          stats_, pc, loc, cpc, cloc, calls, call, obs, dispatched, control,
          error_callback_, callback_table_, next_callback_id_, handles,
          subscribed, returned, handles_, component, resets>>

\* the payload of the n-th Publish call of producer t is <<t, n>>
NoPayload == <<0, 0>>

\* MessageHeader()
DefaultHeader ==
    [msg_id |-> 0, timestamp_us |-> 0, sender_id |-> 0, priority |-> "MEDIUM"]

ZeroStats ==
    [messages_published |-> 0, messages_dropped |-> 0, messages_processed |-> 0,
     processing_errors |-> 0,
     published |-> [p \in MessagePriority |-> 0],
     dropped |-> [p \in MessagePriority |-> 0],
     admission_recheck_count |-> 0, stale_cache_depth_delta |-> 0]

IdleLoc ==
    [mode |-> "FULL_FEATURED", priority |-> "MEDIUM", msg_id |-> 0,
     prod |-> 0, estimated_depth |-> 0, real_cons |-> 0, prod_pos |-> 0,
     assigned_id |-> 0, timestamp_us |-> 0]

\* nothing seen: no call in flight
IdleObs ==
    [entry_depth |-> 0, entry_id |-> 0, quiet |-> FALSE, everBelow |-> FALSE,
     everAtOrAbove |-> FALSE]

IdleCloc == [mode |-> "FULL_FEATURED", cons_pos |-> 0, processed |-> 0]

\* CallbackEntry{} and CallbackSlot{}
EmptyEntry == [id |-> 0, active |-> FALSE]
EmptySlot == [entries |-> [i \in Entries |-> EmptyEntry], count |-> 0]

\* no control call is left to the application but the choice of the
\* performance mode before the bus is used
NoControl ==
    [switches |-> 0, subscriptions |-> 0, callbacks |-> 0, unsubscriptions |-> 0,
     component |-> 0, fast |-> 0, resets |-> 0, queries |-> 0]

\* no control call has returned yet
NoReturn == [op |-> "none", arg |-> 0, value |-> 0]

\* QueueDepth()
QueueDepth == U32(producer_pos_ - consumer_pos_)

BACKPRESSURE_WARNING_THRESHOLD == (MAX_QUEUE_DEPTH * 75) \div 100
BACKPRESSURE_CRITICAL_THRESHOLD == (MAX_QUEUE_DEPTH * 90) \div 100

BackpressureLevel == {"NORMAL", "WARNING", "CRITICAL", "FULL"}

\* mutant: the warning threshold is looked at before the critical one
GetBackpressureLevel_WarningFirst ==
    LET depth == QueueDepth
    IN IF depth >= MAX_QUEUE_DEPTH THEN "FULL"
       ELSE IF depth >= BACKPRESSURE_WARNING_THRESHOLD THEN "WARNING"
       ELSE IF depth >= BACKPRESSURE_CRITICAL_THRESHOLD THEN "CRITICAL"
       ELSE "NORMAL"

\* GetBackpressureLevel(), for the depth QueueDepth() returns in this state
GetBackpressureLevel ==
    LET depth == QueueDepth
    IN IF depth >= MAX_QUEUE_DEPTH THEN "FULL"
       ELSE IF depth >= BACKPRESSURE_CRITICAL_THRESHOLD THEN "CRITICAL"
       ELSE IF depth >= BACKPRESSURE_WARNING_THRESHOLD THEN "WARNING"
       ELSE "NORMAL"

\* The application only subscribes and unsubscribes: often enough to fill a
\* callback slot, to be refused once, and to subscribe again after an
\* Unsubscribe
TableConfiguration ==
    [single_producer |-> 0, depth |-> 2, base |-> 0, lag |-> 0, first_id |-> 1, levels |-> {"MEDIUM"},
     budget |-> [t \in Producers |-> 0],
     control |-> [NoControl EXCEPT
                     !.subscriptions = MCCC_MAX_CALLBACKS_PER_TYPE + 2,
                     !.unsubscriptions = MaxUnsubscriptions]]

\* The application has a component, which subscribes, and another
\* subscriber; one producer publishes
ComponentConfiguration ==
    [single_producer |-> 0, depth |-> 2, base |-> 0, lag |-> 0, first_id |-> 1, levels |-> {"MEDIUM"},
     budget |-> [t \in Producers |-> IF t = 1 THEN 1 ELSE 0],
     control |-> [NoControl EXCEPT
                     !.subscriptions = 1,
                     !.component = MaxComponentSubscriptions]]

\* One producer publishes through Publish, PublishWithPriority or
\* PublishFast
FastConfiguration ==
    [single_producer |-> 0, depth |-> 2, base |-> 0, lag |-> 0, first_id |-> 1, levels |-> {"MEDIUM", "HIGH"},
     budget |-> [t \in Producers |-> IF t = 1 THEN MaxFastCalls ELSE 0],
     control |-> [NoControl EXCEPT !.fast = MaxFastCalls]]

\* One producer fills a ring of 8 slots at HIGH priority
FillConfiguration ==
    [single_producer |-> 0, depth |-> 8, base |-> 0, lag |-> 0, first_id |-> 1, levels |-> {"HIGH"},
     budget |-> [t \in Producers |-> IF t = 1 THEN MaxFillCalls ELSE 0],
     control |-> NoControl]

\* One producer publishes while the application resets and reads the
\* statistics
StatisticsConfiguration ==
    [single_producer |-> 0, depth |-> 2, base |-> 0, lag |-> 0, first_id |-> 1, levels |-> {"MEDIUM"},
     budget |-> [t \in Producers |-> IF t = 1 THEN MaxStatisticsCalls ELSE 0],
     control |-> [NoControl EXCEPT !.resets = MaxResets, !.queries = MaxQueries]]

\* mutant: every producer thread publishes in the single-producer build
SingleProducerConfiguration_ManyThreads ==
    [single_producer |-> 1, depth |-> 2, base |-> PosMod - 1, lag |-> 0, first_id |-> 1,
     levels |-> {"MEDIUM"},
     budget |-> [t \in Producers |-> MaxSingleProducerCalls],
     control |-> NoControl]

\* Producers race at LOW priority on a ring of 4 slots after two messages
\* were published at LOW priority and drained: the cached consumer position
\* is still the one of the construction
StaleCacheConfiguration ==
    [single_producer |-> 0, depth |-> 4, base |-> 2, lag |-> 2, first_id |-> 3,
     levels |-> {"LOW"},
     budget |-> [t \in Producers |-> MaxOtherCalls],
     control |-> NoControl]

\* Producers race on a ring of 2 slots when one message id is left below
\* MSG_ID_WRAP_THRESHOLD
IdRaceConfiguration ==
    [single_producer |-> 0, depth |-> 2, base |-> 0, lag |-> 0,
     first_id |-> MSG_ID_WRAP_THRESHOLD - 1, levels |-> {"MEDIUM"},
     budget |-> [t \in Producers |-> MaxOtherCalls],
     control |-> NoControl]

\* The single-producer build: one producer publishes on a ring of 2 slots
\* whose positions are about to wrap
SingleProducerConfiguration ==
    [single_producer |-> 1, depth |-> 2, base |-> PosMod - 1, lag |-> 0, first_id |-> 1,
     levels |-> {"MEDIUM"},
     budget |-> [t \in Producers |->
                    IF t = 1 THEN MaxSingleProducerCalls ELSE 0],
     control |-> NoControl]

\* The configurations checked: producers racing at the default (MEDIUM) and
\* at HIGH priority on a ring of 2 slots whose positions are about to wrap;
\* one producer alone, at any priority, on a freshly constructed ring of 4
\* slots; producers racing at HIGH priority on such a ring, with an error
\* callback; one producer alone on a ring of 2 slots while the application
\* switches the performance mode; one producer alone whose message ids are
\* about to reach MSG_ID_WRAP_THRESHOLD; one producer alone while the
\* application subscribes and unsubscribes; and the configurations above in
\* which the application makes its control calls.
Configurations ==
    { [single_producer |-> 0, depth |-> 2, base |-> PosMod - 2, lag |-> 0, first_id |-> PosMod - 1,
       levels |-> {"MEDIUM", "HIGH"},
       budget |-> [t \in Producers |-> IF t = 1 THEN MaxCalls ELSE MaxOtherCalls],
       control |-> NoControl],
      [single_producer |-> 0, depth |-> 4, base |-> 0, lag |-> 0, first_id |-> 1, levels |-> MessagePriority,
       budget |-> [t \in Producers |-> IF t = 1 THEN MaxSoloCalls ELSE 0],
       control |-> NoControl],
      [single_producer |-> 0, depth |-> 4, base |-> 0, lag |-> 0, first_id |-> 1, levels |-> {"HIGH"},
       budget |-> [t \in Producers |-> MaxOtherCalls],
       control |-> [NoControl EXCEPT !.callbacks = 1]],
      [single_producer |-> 0, depth |-> 2, base |-> 0, lag |-> 0, first_id |-> 1, levels |-> {"LOW", "HIGH"},
       budget |-> [t \in Producers |->
                      IF t = 1 THEN MaxCalls + MaxOtherCalls ELSE 0],
       control |-> [NoControl EXCEPT !.switches = MaxSwitches, !.callbacks = 1]],
      [single_producer |-> 0, depth |-> 4, base |-> 0, lag |-> 0, first_id |-> MSG_ID_WRAP_THRESHOLD - (MaxSoloCalls - 1),
       levels |-> {"MEDIUM"},
       budget |-> [t \in Producers |-> IF t = 1 THEN MaxSoloCalls + 1 ELSE 0],
       control |-> [NoControl EXCEPT !.callbacks = 1]],
      [single_producer |-> 0, depth |-> 2, base |-> 0, lag |-> 0, first_id |-> 1, levels |-> {"MEDIUM"},
       budget |-> [t \in Producers |-> IF t = 1 THEN MaxCalls ELSE 0],
       control |-> [NoControl EXCEPT !.subscriptions = MaxSubscriptions,
                                     !.unsubscriptions = 1]],
      TableConfiguration, ComponentConfiguration, FastConfiguration,
      FillConfiguration, StatisticsConfiguration,
      SingleProducerConfiguration, StaleCacheConfiguration,
      IdRaceConfiguration }

\* The race of the fair runs: every producer makes MaxOtherCalls Publish
\* calls at the default priority on a ring of 2 slots.
FairConfiguration ==
    [single_producer |-> 0, depth |-> 2, base |-> PosMod - 2, lag |-> 0, first_id |-> PosMod - 1,
     levels |-> {"MEDIUM"},
     budget |-> [t \in Producers |-> MaxOtherCalls],
     control |-> [NoControl EXCEPT !.callbacks = 1]]

\* The configurations of the fair runs: that race, and the configurations in
\* which the application makes its control calls
FairConfigurations ==
    {FairConfiguration, TableConfiguration, ComponentConfiguration,
     FastConfiguration, StatisticsConfiguration,
     SingleProducerConfiguration}

\* AsyncBus(): the constructed bus (base 0, first_id 1), or the empty bus
\* after `base` messages were published and drained and the statistics were
\* reset: slot i holds the smallest sequence >= base congruent to i modulo
\* the capacity, first_id is the next message id, and the cached consumer
\* position is `lag` positions behind (no admission test of those Publish
\* calls has refreshed it since)
InitOf(conf) ==
    /\ MCCC_QUEUE_DEPTH = conf.depth
    /\ MCCC_SINGLE_PRODUCER = conf.single_producer
    /\ budget = conf.budget
    /\ levels = conf.levels
    /\ ring_buffer_ = [i \in 0 .. (conf.depth - 1) |->
           [sequence |-> (conf.base + ((i - conf.base) % conf.depth)) % PosMod,
            header |-> DefaultHeader, payload |-> NoPayload]]
    /\ producer_pos_ = conf.base
    /\ cached_consumer_pos_ = (conf.base - conf.lag) % PosMod
    /\ consumer_pos_ = conf.base
    /\ next_msg_id_ = conf.first_id
    /\ performance_mode_ = "FULL_FEATURED"
    /\ stats_ = ZeroStats
    /\ pc = [t \in Producers |-> "idle"]
    /\ loc = [t \in Producers |-> IdleLoc]
    /\ cpc = "idle"
    /\ cloc = IdleCloc
    /\ calls = [t \in Producers |-> 0]
    /\ call = <<>>
    /\ obs = [t \in Producers |-> IdleObs]
    /\ dispatched = <<>>
    /\ control = conf.control
    /\ error_callback_ = "nullptr"
    /\ callback_table_ = [k \in TypeIndexes |-> EmptySlot]
    /\ next_callback_id_ = 1
    /\ handles = {}
    /\ subscribed = {}
    /\ returned = NoReturn
    /\ handles_ = <<>>
    /\ component = [alive |-> conf.control.component > 0,
                    held |-> conf.control.component > 0, made |-> {}]
    /\ resets = 0

Init == \E conf \in Configurations : InitOf(conf)

FairInit == \E conf \in FairConfigurations : InitOf(conf)

\* ------------------------------------------------------------ history helpers
\* the Publish call producer t is in, or made last
Cur(t) == <<t, calls[t]>>

\* no Publish call has been made and the consumer is idle
SetupPhase == (\A t \in Producers : calls[t] = 0) /\ cpc = "idle"

BelowNow(priority, prod, cons) ==
    U32(prod - cons) < GetThresholdForPriority(priority)

\* no slot check has failed
NoCheck == [prod_pos |-> -1, seq |-> -1, producer_pos |-> -1, producer_seq |-> -1]

\* the record of a call that starts now: the function called, what it asks
\* for, the mode it reads, and what it has got so far (the error callbacks
\* it has invoked among that)
NewCall(api, priority, timestamp_us) ==
    [api |-> api, priority |-> priority, timestamp_us |-> timestamp_us,
     mode |-> performance_mode_, result |-> "pending",
     msg_id |-> 0, pos |-> -1, check |-> NoCheck, reported |-> <<>>]

\* what a failing slot check of producer t has loaded, and what producer_pos_
\* and the sequence of its slot are at that instant
FailedCheck(t) ==
    [prod_pos |-> loc[t].prod_pos,
     seq |-> ring_buffer_[SlotOf(loc[t].prod_pos)].sequence,
     producer_pos |-> producer_pos_,
     producer_seq |-> ring_buffer_[SlotOf(producer_pos_)].sequence]

\* what a call that starts now sees: the real depth and next_msg_id_ at its
\* entry, whether it starts with the consumer idle and no other call in
\* flight, and on which side of its threshold the real depth is
NewObs(t, priority) ==
    [entry_depth |-> QueueDepth,
     entry_id |-> next_msg_id_,
     quiet |-> (cpc = "idle" /\ \A u \in Producers \ {t} : pc[u] = "idle"),
     everBelow |-> BelowNow(priority, producer_pos_, consumer_pos_),
     everAtOrAbove |-> ~BelowNow(priority, producer_pos_, consumer_pos_)]

\* every call in flight sees the real depth after a change of producer_pos_
\* or consumer_pos_
Observed(prod, cons) ==
    [t \in Producers |->
        IF pc[t] # "idle"
        THEN [obs[t] EXCEPT !.everBelow = @ \/ BelowNow(loc[t].priority, prod, cons),
                            !.everAtOrAbove = @ \/ ~BelowNow(loc[t].priority, prod, cons)]
        ELSE obs[t]]

\* every call in flight is no longer alone with the bus
Disturbed ==
    [t \in Producers |->
        IF pc[t] # "idle" THEN [obs[t] EXCEPT !.quiet = FALSE] ELSE obs[t]]

\* mutant: the callback is given the value next_msg_id_ has now
ReportError_CurrentId(error, msg_id) ==
    IF error_callback_ # "nullptr"
    THEN <<[callback |-> error_callback_, error |-> error, msg_id |-> next_msg_id_]>>
    ELSE <<>>

\* ReportError(error, msg_id): the invocations of the error callback
ReportError(error, msg_id) ==
    IF error_callback_ # "nullptr"
    THEN <<[callback |-> error_callback_, error |-> error, msg_id |-> msg_id]>>
    ELSE <<>>

\* the call of producer t returns after the error callback invocations
\* `reports`: its locals die, its result is recorded
ReturnReporting(t, result, reports) ==
    /\ pc' = [pc EXCEPT ![t] = "idle"]
    /\ loc' = [loc EXCEPT ![t] = IdleLoc]
    /\ obs' = [obs EXCEPT ![t] = IdleObs]
    /\ call' = [call EXCEPT ![Cur(t)].result = result,
                            ![Cur(t)].check = IF result = "slot" THEN FailedCheck(t)
                                              ELSE NoCheck,
                            ![Cur(t)].reported = reports]

\* the call of producer t returns without an error
Return(t, result) == ReturnReporting(t, result, <<>>)

\* mutant: a drop is counted for its priority only
CountDropped_PriorityOnly(st, priority) ==
    [st EXCEPT !.dropped[priority] = @ + 1]

\* stats_.messages_dropped.fetch_add(1); UpdatePriorityDroppedStats(priority)
CountDropped(st, priority) ==
    [st EXCEPT !.messages_dropped = @ + 1, !.dropped[priority] = @ + 1]

\* stats_.messages_published.fetch_add(1); UpdatePriorityPublishedStats(priority)
CountPublished(st, priority) ==
    [st EXCEPT !.messages_published = @ + 1, !.published[priority] = @ + 1]

\* admission_recheck_count and stale_cache_depth_delta of the recheck path
CountRecheck(st, estimated_depth, real_depth) ==
    [st EXCEPT !.admission_recheck_count = @ + 1,
               !.stale_cache_depth_delta =
                   IF estimated_depth > real_depth
                   THEN @ + (estimated_depth - real_depth) ELSE @]

\* ------------------------------------------------------------ PublishInternal
\* mutant: the overflow guard reads msg_id > MSG_ID_WRAP_THRESHOLD
Overflows_OffByOne(msg_id) == msg_id > MSG_ID_WRAP_THRESHOLD

\* msg_id >= MSG_ID_WRAP_THRESHOLD
Overflows(msg_id) == msg_id >= MSG_ID_WRAP_THRESHOLD

\* mutant: the admission test is made in BARE_METAL mode too
PublishInternal_AlwaysAdmission(t, api, priority, timestamp_us) ==
    /\ pc[t] = "idle"
    /\ budget[t] > 0
    /\ budget' = [budget EXCEPT ![t] = @ - 1]
    /\ calls' = [calls EXCEPT ![t] = @ + 1]
    /\ IF Overflows(next_msg_id_)
       THEN /\ call' = call @@ (<<t, calls[t] + 1>> :>
                   [NewCall(api, priority, timestamp_us) EXCEPT
                       !.result = "overflow",
                       !.reported = IF IsNoStats(performance_mode_) THEN <<>>
                                    ELSE ReportError("OVERFLOW_DETECTED", next_msg_id_)])
            /\ obs' = Disturbed
            /\ UNCHANGED <<pc, loc>>
       ELSE /\ pc' = [pc EXCEPT ![t] = "adm_load_prod"]
            /\ loc' = [loc EXCEPT ![t] = [IdleLoc EXCEPT !.mode = performance_mode_,
                                                         !.priority = priority,
                                                         !.msg_id = next_msg_id_,
                                                         !.timestamp_us = timestamp_us]]
            /\ call' = call @@ (<<t, calls[t] + 1>> :>
                   NewCall(api, priority, timestamp_us))
            /\ obs' = [Disturbed EXCEPT ![t] = NewObs(t, priority)]
    /\ UNCHANGED <<MCCC_QUEUE_DEPTH, MCCC_SINGLE_PRODUCER, levels, progVars, cpc, cloc, dispatched,
                   tableVars>>

\* entry of PublishInternal(payload, sender_id, timestamp_us, priority), the
\* payload <<t, n>> and the sender id t being those of the caller:
\* mode = performance_mode_.load(); msg_id = next_msg_id_.load();
\* msg_id >= MSG_ID_WRAP_THRESHOLD: report the overflow unless statistics are
\* off, return false
PublishInternal(t, api, priority, timestamp_us) ==
    /\ pc[t] = "idle"
    /\ budget[t] > 0
    /\ budget' = [budget EXCEPT ![t] = @ - 1]
    /\ calls' = [calls EXCEPT ![t] = @ + 1]
    /\ IF Overflows(next_msg_id_)
       THEN /\ call' = call @@ (<<t, calls[t] + 1>> :>
                   [NewCall(api, priority, timestamp_us) EXCEPT
                       !.result = "overflow",
                       !.reported = IF IsNoStats(performance_mode_) THEN <<>>
                                    ELSE ReportError("OVERFLOW_DETECTED", next_msg_id_)])
            /\ obs' = Disturbed
            /\ UNCHANGED <<pc, loc>>
       ELSE /\ pc' = [pc EXCEPT ![t] = IF IsBareMetal(performance_mode_)
                                       THEN "claim_load" ELSE "adm_load_prod"]
            /\ loc' = [loc EXCEPT ![t] = [IdleLoc EXCEPT !.mode = performance_mode_,
                                                         !.priority = priority,
                                                         !.msg_id = next_msg_id_,
                                                         !.timestamp_us = timestamp_us]]
            /\ call' = call @@ (<<t, calls[t] + 1>> :>
                   NewCall(api, priority, timestamp_us))
            /\ obs' = [Disturbed EXCEPT ![t] = NewObs(t, priority)]
    /\ UNCHANGED <<MCCC_QUEUE_DEPTH, MCCC_SINGLE_PRODUCER, levels, progVars, cpc, cloc, dispatched,
                   tableVars>>

\* the values GetTimestampUs() returns
ClockReadings == 1 .. MaxClock

\* the timestamps a caller of PublishFast supplies
Timestamps == 0 .. MaxTimestamp

\* Publish(payload, sender_id): the default priority, the time of the clock
Publish(t) ==
    /\ "MEDIUM" \in levels
    /\ \E now \in ClockReadings : PublishInternal(t, "Publish", "MEDIUM", now)
    /\ UNCHANGED control

\* PublishWithPriority(payload, sender_id, priority): the time of the clock
PublishWithPriority(t, priority) ==
    /\ \E now \in ClockReadings :
           PublishInternal(t, "PublishWithPriority", priority, now)
    /\ UNCHANGED control

\* PublishFast(payload, sender_id, timestamp_us): the default priority, the
\* time of the caller
PublishFast(t, timestamp_us) ==
    /\ control.fast > 0
    /\ control' = [control EXCEPT !.fast = @ - 1]
    /\ PublishInternal(t, "PublishFast", "MEDIUM", timestamp_us)

\* prod = producer_pos_.load()
P_AdmLoadProd(t) ==
    /\ pc[t] = "adm_load_prod"
    /\ loc' = [loc EXCEPT ![t].prod = producer_pos_]
    /\ pc' = [pc EXCEPT ![t] = "adm_load_cached"]
    /\ UNCHANGED <<confVars, progVars, cpc, cloc, histVars, tableVars>>

\* mutant: the admission test reads estimated_depth > threshold
P_AdmLoadCached_OffByOne(t) ==
    /\ pc[t] = "adm_load_cached"
    /\ LET estimated_depth == U32(loc[t].prod - cached_consumer_pos_)
       IN IF estimated_depth > GetThresholdForPriority(loc[t].priority)
          THEN /\ loc' = [loc EXCEPT ![t].estimated_depth = estimated_depth]
               /\ pc' = [pc EXCEPT ![t] = "adm_load_cons"]
          ELSE /\ loc' = [loc EXCEPT ![t].prod = 0]
               /\ pc' = [pc EXCEPT ![t] = "claim_load"]
    /\ UNCHANGED <<confVars, progVars, cpc, cloc, histVars, tableVars>>

\* cached_cons = cached_consumer_pos_.load(); estimated_depth = prod - cached_cons
P_AdmLoadCached(t) ==
    /\ pc[t] = "adm_load_cached"
    /\ LET estimated_depth == U32(loc[t].prod - cached_consumer_pos_)
       IN IF estimated_depth >= GetThresholdForPriority(loc[t].priority)
          THEN /\ loc' = [loc EXCEPT ![t].estimated_depth = estimated_depth]
               /\ pc' = [pc EXCEPT ![t] = "adm_load_cons"]
          ELSE /\ loc' = [loc EXCEPT ![t].prod = 0]
               /\ pc' = [pc EXCEPT ![t] = "claim_load"]
    /\ UNCHANGED <<confVars, progVars, cpc, cloc, histVars, tableVars>>

\* real_cons = consumer_pos_.load(acquire)
P_AdmLoadCons(t) ==
    /\ pc[t] = "adm_load_cons"
    /\ loc' = [loc EXCEPT ![t].real_cons = consumer_pos_]
    /\ pc' = [pc EXCEPT ![t] = "adm_store_cached"]
    /\ UNCHANGED <<confVars, progVars, cpc, cloc, histVars, tableVars>>

\* cached_consumer_pos_.store(real_cons); real_depth = prod - real_cons; the
\* recheck statistics; real_depth < threshold: go on to claim a slot
\* mutant: the recheck caches the producer position it has loaded
P_AdmAdmit_CachesProd(t) ==
    /\ pc[t] = "adm_store_cached"
    /\ LET real_depth == U32(loc[t].prod - loc[t].real_cons)
       IN /\ real_depth < GetThresholdForPriority(loc[t].priority)
          /\ stats_' = IF IsNoStats(loc[t].mode) THEN stats_
                       ELSE CountRecheck(stats_, loc[t].estimated_depth, real_depth)
    /\ cached_consumer_pos_' = loc[t].prod
    /\ pc' = [pc EXCEPT ![t] = "claim_load"]
    /\ loc' = [loc EXCEPT ![t].prod = 0, ![t].estimated_depth = 0,
                          ![t].real_cons = 0]
    /\ UNCHANGED <<confVars, ring_buffer_, producer_pos_, consumer_pos_, next_msg_id_,
                   performance_mode_, cpc, cloc, histVars, tableVars>>

P_AdmAdmit(t) ==
    /\ pc[t] = "adm_store_cached"
    /\ LET real_depth == U32(loc[t].prod - loc[t].real_cons)
       IN /\ real_depth < GetThresholdForPriority(loc[t].priority)
          /\ stats_' = IF IsNoStats(loc[t].mode) THEN stats_
                       ELSE CountRecheck(stats_, loc[t].estimated_depth, real_depth)
    /\ cached_consumer_pos_' = loc[t].real_cons
    /\ pc' = [pc EXCEPT ![t] = "claim_load"]
    /\ loc' = [loc EXCEPT ![t].prod = 0, ![t].estimated_depth = 0,
                          ![t].real_cons = 0]
    /\ UNCHANGED <<confVars, ring_buffer_, producer_pos_, consumer_pos_, next_msg_id_,
                   performance_mode_, cpc, cloc, histVars, tableVars>>

\* the same store and statistics; real_depth >= threshold: the drop
\* statistics and ReportError(QUEUE_FULL, msg_id), return false
\* mutant: a Publish rejected by the admission test takes a message id
P_AdmReject_TakesId(t) ==
    /\ pc[t] = "adm_store_cached"
    /\ LET real_depth == U32(loc[t].prod - loc[t].real_cons)
       IN /\ real_depth >= GetThresholdForPriority(loc[t].priority)
          /\ stats_' = IF IsNoStats(loc[t].mode) THEN stats_
                       ELSE CountDropped(
                                CountRecheck(stats_, loc[t].estimated_depth, real_depth),
                                loc[t].priority)
    /\ cached_consumer_pos_' = loc[t].real_cons
    /\ next_msg_id_' = next_msg_id_ + 1
    /\ ReturnReporting(t, "admission",
           IF IsNoStats(loc[t].mode) THEN <<>>
           ELSE ReportError("QUEUE_FULL", loc[t].msg_id))
    /\ UNCHANGED <<confVars, ring_buffer_, producer_pos_, consumer_pos_,
                   performance_mode_, cpc, cloc, calls, dispatched, tableVars>>

P_AdmReject(t) ==
    /\ pc[t] = "adm_store_cached"
    /\ LET real_depth == U32(loc[t].prod - loc[t].real_cons)
       IN /\ real_depth >= GetThresholdForPriority(loc[t].priority)
          /\ stats_' = IF IsNoStats(loc[t].mode) THEN stats_
                       ELSE CountDropped(
                                CountRecheck(stats_, loc[t].estimated_depth, real_depth),
                                loc[t].priority)
    /\ cached_consumer_pos_' = loc[t].real_cons
    /\ ReturnReporting(t, "admission",
           IF IsNoStats(loc[t].mode) THEN <<>>
           ELSE ReportError("QUEUE_FULL", loc[t].msg_id))
    /\ UNCHANGED <<confVars, ring_buffer_, producer_pos_, consumer_pos_, next_msg_id_,
                   performance_mode_, cpc, cloc, calls, dispatched, tableVars>>

\* prod_pos = producer_pos_.load()
P_ClaimLoad(t) ==
    /\ pc[t] = "claim_load"
    /\ loc' = [loc EXCEPT ![t].prod_pos = producer_pos_]
    /\ pc' = [pc EXCEPT ![t] = "claim_seq"]
    /\ UNCHANGED <<confVars, progVars, cpc, cloc, histVars, tableVars>>

\* mutant: the producer goes on to the compare_exchange whatever the slot's
\* sequence is
P_ClaimSeqFree_NoCheck(t) ==
    /\ pc[t] = "claim_seq"
    /\ pc' = [pc EXCEPT ![t] = "claim_cas"]
    /\ UNCHANGED <<confVars, progVars, loc, cpc, cloc, histVars, tableVars>>

\* seq = node->sequence.load(acquire) and seq == prod_pos
P_ClaimSeqFree(t) ==
    /\ pc[t] = "claim_seq"
    /\ ring_buffer_[SlotOf(loc[t].prod_pos)].sequence = loc[t].prod_pos
    /\ pc' = [pc EXCEPT ![t] = "claim_cas"]
    /\ UNCHANGED <<confVars, progVars, loc, cpc, cloc, histVars, tableVars>>

\* seq = node->sequence.load(acquire) and seq != prod_pos: the drop
\* statistics and ReportError(QUEUE_FULL, msg_id), return false
P_ClaimSeqFull(t) ==
    /\ pc[t] = "claim_seq"
    /\ ring_buffer_[SlotOf(loc[t].prod_pos)].sequence # loc[t].prod_pos
    /\ stats_' = IF IsNoStats(loc[t].mode) THEN stats_
                 ELSE CountDropped(stats_, loc[t].priority)
    /\ ReturnReporting(t, "slot",
           IF IsNoStats(loc[t].mode) THEN <<>>
           ELSE ReportError("QUEUE_FULL", loc[t].msg_id))
    /\ UNCHANGED <<confVars, ring_buffer_, producer_pos_, cached_consumer_pos_,
                   consumer_pos_, next_msg_id_, performance_mode_, cpc, cloc,
                   calls, dispatched, tableVars>>

\* mutant: producer_pos_.store(prod_pos + 1) without comparing
P_CasSuccess_NoCompare(t) ==
    /\ pc[t] = "claim_cas"
    /\ producer_pos_' = U32(loc[t].prod_pos + 1)
    /\ pc' = [pc EXCEPT ![t] = "fetch_id"]
    /\ loc' = [loc EXCEPT ![t].msg_id = 0]
    /\ call' = [call EXCEPT ![Cur(t)].pos = loc[t].prod_pos]
    /\ obs' = Observed(U32(loc[t].prod_pos + 1), consumer_pos_)
    /\ UNCHANGED <<confVars, ring_buffer_, cached_consumer_pos_, consumer_pos_, next_msg_id_,
                   performance_mode_, stats_, cpc, cloc, calls, dispatched, tableVars>>

\* producer_pos_.compare_exchange_weak(prod_pos, prod_pos + 1) succeeds
P_CasSuccess(t) ==
    /\ MCCC_SINGLE_PRODUCER = 0
    /\ pc[t] = "claim_cas"
    /\ producer_pos_ = loc[t].prod_pos
    /\ producer_pos_' = U32(loc[t].prod_pos + 1)
    /\ pc' = [pc EXCEPT ![t] = "fetch_id"]
    /\ loc' = [loc EXCEPT ![t].msg_id = 0]
    /\ call' = [call EXCEPT ![Cur(t)].pos = loc[t].prod_pos]
    /\ obs' = Observed(U32(loc[t].prod_pos + 1), consumer_pos_)
    /\ UNCHANGED <<confVars, ring_buffer_, cached_consumer_pos_, consumer_pos_, next_msg_id_,
                   performance_mode_, stats_, cpc, cloc, calls, dispatched, tableVars>>

\* mutant: after a failed compare_exchange the loop tries it again with the
\* prod_pos it has
P_CasFail_NoReload(t) ==
    /\ pc[t] = "claim_cas"
    /\ producer_pos_ # loc[t].prod_pos
    /\ pc' = [pc EXCEPT ![t] = "claim_cas"]
    /\ UNCHANGED <<confVars, progVars, loc, cpc, cloc, histVars, tableVars>>

\* the compare_exchange fails because producer_pos_ has moved: retry the loop
P_CasFail(t) ==
    /\ MCCC_SINGLE_PRODUCER = 0
    /\ pc[t] = "claim_cas"
    /\ producer_pos_ # loc[t].prod_pos
    /\ pc' = [pc EXCEPT ![t] = "claim_load"]
    /\ loc' = [loc EXCEPT ![t].prod_pos = 0]
    /\ UNCHANGED <<confVars, progVars, cpc, cloc, histVars, tableVars>>

\* compare_exchange_weak may fail although producer_pos_ = prod_pos: retry
P_CasSpurious(t) ==
    /\ MCCC_SINGLE_PRODUCER = 0
    /\ pc[t] = "claim_cas"
    /\ producer_pos_ = loc[t].prod_pos
    /\ pc' = [pc EXCEPT ![t] = "claim_load"]
    /\ loc' = [loc EXCEPT ![t].prod_pos = 0]
    /\ UNCHANGED <<confVars, progVars, cpc, cloc, histVars, tableVars>>

\* #if MCCC_SINGLE_PRODUCER: producer_pos_.store(prod_pos + 1), after the
\* slot check has found the slot free
P_ClaimStore(t) ==
    /\ MCCC_SINGLE_PRODUCER = 1
    /\ pc[t] = "claim_cas"
    /\ producer_pos_' = U32(loc[t].prod_pos + 1)
    /\ pc' = [pc EXCEPT ![t] = "fetch_id"]
    /\ loc' = [loc EXCEPT ![t].msg_id = 0]
    /\ call' = [call EXCEPT ![Cur(t)].pos = loc[t].prod_pos]
    /\ obs' = Observed(U32(loc[t].prod_pos + 1), consumer_pos_)
    /\ UNCHANGED <<confVars, ring_buffer_, cached_consumer_pos_, consumer_pos_, next_msg_id_,
                   performance_mode_, stats_, cpc, cloc, calls, dispatched, tableVars>>

\* mutant: assigned_id = next_msg_id_.load(), the counter is not advanced
P_FetchId_Load(t) ==
    /\ pc[t] = "fetch_id"
    /\ loc' = [loc EXCEPT ![t].assigned_id = next_msg_id_]
    /\ next_msg_id_' = next_msg_id_
    /\ pc' = [pc EXCEPT ![t] = "write_header"]
    /\ call' = [call EXCEPT ![Cur(t)].msg_id = next_msg_id_]
    /\ UNCHANGED <<confVars, ring_buffer_, producer_pos_, cached_consumer_pos_,
                   consumer_pos_, performance_mode_, stats_, cpc, cloc, calls,
                   obs, dispatched, tableVars>>

\* assigned_id = next_msg_id_.fetch_add(1)
P_FetchId(t) ==
    /\ pc[t] = "fetch_id"
    /\ loc' = [loc EXCEPT ![t].assigned_id = next_msg_id_]
    /\ next_msg_id_' = next_msg_id_ + 1
    /\ pc' = [pc EXCEPT ![t] = "write_header"]
    /\ call' = [call EXCEPT ![Cur(t)].msg_id = next_msg_id_]
    /\ UNCHANGED <<confVars, ring_buffer_, producer_pos_, cached_consumer_pos_,
                   consumer_pos_, performance_mode_, stats_, cpc, cloc, calls,
                   obs, dispatched, tableVars>>

\* mutant: the header gets the time at which it is written
P_WriteHeader_Now(t) ==
    /\ pc[t] = "write_header"
    /\ \E now \in ClockReadings :
           ring_buffer_' = [ring_buffer_ EXCEPT ![SlotOf(loc[t].prod_pos)].header =
               [msg_id |-> loc[t].assigned_id, timestamp_us |-> now,
                sender_id |-> t, priority |-> loc[t].priority]]
    /\ pc' = [pc EXCEPT ![t] = "write_payload"]
    /\ UNCHANGED <<confVars, producer_pos_, cached_consumer_pos_, consumer_pos_,
                   next_msg_id_, performance_mode_, stats_, loc, cpc, cloc,
                   histVars, tableVars>>

\* node->envelope.header = MessageHeader{assigned_id, timestamp_us, sender_id, priority}
P_WriteHeader(t) ==
    /\ pc[t] = "write_header"
    /\ ring_buffer_' = [ring_buffer_ EXCEPT ![SlotOf(loc[t].prod_pos)].header =
           [msg_id |-> loc[t].assigned_id, timestamp_us |-> loc[t].timestamp_us,
            sender_id |-> t, priority |-> loc[t].priority]]
    /\ pc' = [pc EXCEPT ![t] = "write_payload"]
    /\ UNCHANGED <<confVars, producer_pos_, cached_consumer_pos_, consumer_pos_,
                   next_msg_id_, performance_mode_, stats_, loc, cpc, cloc,
                   histVars, tableVars>>

\* node->envelope.payload = std::move(payload)
P_WritePayload(t) ==
    /\ pc[t] = "write_payload"
    /\ ring_buffer_' = [ring_buffer_ EXCEPT ![SlotOf(loc[t].prod_pos)].payload =
           Cur(t)]
    /\ pc' = [pc EXCEPT ![t] = "release"]
    /\ UNCHANGED <<confVars, producer_pos_, cached_consumer_pos_, consumer_pos_,
                   next_msg_id_, performance_mode_, stats_, loc, cpc, cloc,
                   histVars, tableVars>>

\* mutant: the call goes on to its statistics in every mode
P_Release_AlwaysCount(t) ==
    /\ pc[t] = "release"
    /\ ring_buffer_' = [ring_buffer_ EXCEPT ![SlotOf(loc[t].prod_pos)].sequence =
           U32(loc[t].prod_pos + 1)]
    /\ pc' = [pc EXCEPT ![t] = "published"]
    /\ UNCHANGED <<confVars, producer_pos_, cached_consumer_pos_, consumer_pos_,
                   next_msg_id_, performance_mode_, stats_, loc, cpc, cloc,
                   histVars, tableVars>>

\* node->sequence.store(prod_pos + 1, release); with statistics off nothing
\* is left to do: return true
P_Release(t) ==
    /\ pc[t] = "release"
    /\ ring_buffer_' = [ring_buffer_ EXCEPT ![SlotOf(loc[t].prod_pos)].sequence =
           U32(loc[t].prod_pos + 1)]
    /\ IF IsNoStats(loc[t].mode)
       THEN /\ Return(t, "true")
            /\ UNCHANGED <<calls, dispatched>>
       ELSE /\ pc' = [pc EXCEPT ![t] = "published"]
            /\ UNCHANGED <<loc, histVars>>
    /\ UNCHANGED <<confVars, producer_pos_, cached_consumer_pos_, consumer_pos_,
                   next_msg_id_, performance_mode_, stats_, cpc, cloc, tableVars>>

\* stats_.messages_published.fetch_add(1); UpdatePriorityPublishedStats;
\* return true
P_Published(t) ==
    /\ pc[t] = "published"
    /\ stats_' = CountPublished(stats_, loc[t].priority)
    /\ Return(t, "true")
    /\ UNCHANGED <<confVars, ring_buffer_, producer_pos_, cached_consumer_pos_,
                   consumer_pos_, next_msg_id_, performance_mode_, cpc, cloc,
                   calls, dispatched, tableVars>>

\* ------------------------------------------------------------ ProcessBatch
\* entry: cons_pos = consumer_pos_.load(); mode = performance_mode_.load()
ProcessBatch ==
    /\ cpc = "idle"
    /\ cloc' = [mode |-> performance_mode_, cons_pos |-> consumer_pos_,
                processed |-> 0]
    /\ cpc' = "load_seq"
    /\ obs' = Disturbed
    /\ UNCHANGED <<confVars, progVars, pc, loc, calls, call, dispatched, tableVars>>

\* mutant: the consumer reads the slot whatever its sequence is
C_SeqReady_NoCheck ==
    /\ cpc = "load_seq"
    /\ cpc' = "dispatch"
    /\ UNCHANGED <<confVars, progVars, pc, loc, cloc, histVars, tableVars>>

\* ProcessOneInBatch: seq = node.sequence.load(acquire) and seq == cons_pos + 1
C_SeqReady ==
    /\ cpc = "load_seq"
    /\ ring_buffer_[SlotOf(cloc.cons_pos)].sequence = U32(cloc.cons_pos + 1)
    /\ cpc' = "dispatch"
    /\ UNCHANGED <<confVars, progVars, pc, loc, cloc, histVars, tableVars>>

\* mutant: a batch that ends before BATCH_PROCESS_SIZE envelopes returns at
\* once
C_SeqNotReady_NoStore ==
    /\ cpc = "load_seq"
    /\ ring_buffer_[SlotOf(cloc.cons_pos)].sequence # U32(cloc.cons_pos + 1)
    /\ cpc' = "idle"
    /\ cloc' = IdleCloc
    /\ UNCHANGED <<confVars, progVars, pc, loc, histVars, tableVars>>

\* mutant: the consumer steps over a slot that is not ready
C_SeqNotReady_StepOver ==
    /\ cpc = "load_seq"
    /\ ring_buffer_[SlotOf(cloc.cons_pos)].sequence # U32(cloc.cons_pos + 1)
    /\ IF ring_buffer_[SlotOf(cloc.cons_pos + 1)].sequence = U32(cloc.cons_pos + 2)
       THEN cpc' = "load_seq" /\ cloc' = [cloc EXCEPT !.cons_pos = U32(@ + 1)]
       ELSE /\ cpc' = IF cloc.processed > 0 THEN "store_cons" ELSE "idle"
            /\ cloc' = IF cloc.processed > 0 THEN cloc ELSE IdleCloc
    /\ UNCHANGED <<confVars, progVars, pc, loc, histVars, tableVars>>

\* ProcessOneInBatch: seq != cons_pos + 1, the batch ends
C_SeqNotReady ==
    /\ cpc = "load_seq"
    /\ ring_buffer_[SlotOf(cloc.cons_pos)].sequence # U32(cloc.cons_pos + 1)
    /\ cpc' = IF cloc.processed > 0 THEN "store_cons" ELSE "idle"
    /\ cloc' = IF cloc.processed > 0 THEN cloc ELSE IdleCloc
    /\ UNCHANGED <<confVars, progVars, pc, loc, histVars, tableVars>>

\* envelope.payload.index()
index(payload) == payload[2] % MCCC_MAX_MESSAGE_TYPES

\* mutant: the loop of DispatchMessage invokes every entry, active or not
RECURSIVE InvokeFrom_IgnoringActive(_, _)
InvokeFrom_IgnoringActive(slot, i) ==
    IF i >= MCCC_MAX_CALLBACKS_PER_TYPE THEN <<>>
    ELSE <<[type_index |-> -1, entry |-> i, id |-> slot.entries[i].id]>>
             \o InvokeFrom_IgnoringActive(slot, i + 1)

\* the loop of DispatchMessage from entry i on: the active entries, in the
\* order of their index
RECURSIVE InvokeFrom(_, _)
InvokeFrom(slot, i) ==
    IF i >= MCCC_MAX_CALLBACKS_PER_TYPE THEN <<>>
    ELSE (IF slot.entries[i].active
          THEN <<[type_index |-> -1, entry |-> i, id |-> slot.entries[i].id]>>
          ELSE <<>>) \o InvokeFrom(slot, i + 1)

\* DispatchMessage / DispatchMessageBareMetal (envelope): the callbacks
\* invoked with the envelope, in the order of their invocation
DispatchMessage(payload) ==
    LET type_idx == index(payload)
    IN IF type_idx >= MCCC_MAX_MESSAGE_TYPES THEN <<>>
       ELSE IF callback_table_[type_idx].count = 0 THEN <<>>
       ELSE [n \in DOMAIN InvokeFrom(callback_table_[type_idx], 0) |->
                [InvokeFrom(callback_table_[type_idx], 0)[n]
                     EXCEPT !.type_index = type_idx]]

\* ProcessOneInBatch: DispatchMessage / DispatchMessageBareMetal (node.envelope)
\* callback_mutex_ is held shared: DispatchMessage holds its shared_lock from
\* before the first callback until the last one has returned
SharedLockHeld ==
    cpc \in {"callback", "unsubscribe_lock", "terminate"} /\ ~IsBareMetal(cloc.mode)

\* the callbacks invoked include one the component has registered with
\* SubscribeSafe, and weak_self.lock() gives it a reference to the component
Pins(invoked) ==
    /\ component.alive
    /\ \E n \in DOMAIN invoked :
           [type_index |-> invoked[n].type_index, callback_id |-> invoked[n].id]
               \in component.made

\* the step from the entry of the callbacks to the call of the component's:
\* while that one runs, `self` keeps the component alive
C_Dispatch ==
    /\ cpc = "dispatch"
    /\ dispatched' = Append(dispatched,
           [pos |-> cloc.cons_pos,
            header |-> ring_buffer_[SlotOf(cloc.cons_pos)].header,
            payload |-> ring_buffer_[SlotOf(cloc.cons_pos)].payload,
            mode |-> cloc.mode,
            invoked |-> DispatchMessage(ring_buffer_[SlotOf(cloc.cons_pos)].payload)])
    /\ cpc' = IF Pins(DispatchMessage(ring_buffer_[SlotOf(cloc.cons_pos)].payload))
              THEN "callback" ELSE "release"
    /\ UNCHANGED <<confVars, progVars, pc, loc, cloc, calls, call, obs, tableVars>>

\* node.sequence.store(cons_pos + BUFFER_SIZE, release); ++cons_pos; ++processed
\* mutant: the consumer frees the slot for the round it has just drained
C_Release_SameRound ==
    /\ cpc = "release"
    /\ ring_buffer_' = [ring_buffer_ EXCEPT ![SlotOf(cloc.cons_pos)].sequence =
           cloc.cons_pos]
    /\ cloc' = [cloc EXCEPT !.cons_pos = U32(@ + 1), !.processed = @ + 1]
    /\ cpc' = IF cloc.processed + 1 < BATCH_PROCESS_SIZE THEN "load_seq"
              ELSE "store_cons"
    /\ UNCHANGED <<confVars, producer_pos_, cached_consumer_pos_, consumer_pos_,
                   next_msg_id_, performance_mode_, stats_, pc, loc, histVars, tableVars>>

\* mutant: the release value is kept in a wider integer than the positions
C_Release_Wide ==
    /\ cpc = "release"
    /\ ring_buffer_' = [ring_buffer_ EXCEPT ![SlotOf(cloc.cons_pos)].sequence =
           cloc.cons_pos + BUFFER_SIZE]
    /\ cloc' = [cloc EXCEPT !.cons_pos = U32(@ + 1), !.processed = @ + 1]
    /\ cpc' = IF cloc.processed + 1 < BATCH_PROCESS_SIZE THEN "load_seq"
              ELSE "store_cons"
    /\ UNCHANGED <<confVars, producer_pos_, cached_consumer_pos_, consumer_pos_,
                   next_msg_id_, performance_mode_, stats_, pc, loc, histVars, tableVars>>

\* ring_buffer_[cons_pos & MASK].sequence.store(cons_pos + BUFFER_SIZE); ++cons_pos
C_Release ==
    /\ cpc = "release"
    /\ ring_buffer_' = [ring_buffer_ EXCEPT ![SlotOf(cloc.cons_pos)].sequence =
           U32(cloc.cons_pos + BUFFER_SIZE)]
    /\ cloc' = [cloc EXCEPT !.cons_pos = U32(@ + 1), !.processed = @ + 1]
    /\ cpc' = IF cloc.processed + 1 < BATCH_PROCESS_SIZE THEN "load_seq"
              ELSE "store_cons"
    /\ UNCHANGED <<confVars, producer_pos_, cached_consumer_pos_, consumer_pos_,
                   next_msg_id_, performance_mode_, stats_, pc, loc, histVars, tableVars>>

\* mutant: the batch ends without consumer_pos_.store(cons_pos)
C_StoreCons_Skip ==
    /\ cpc = "store_cons"
    /\ consumer_pos_' = consumer_pos_
    /\ obs' = obs
    /\ IF IsNoStats(cloc.mode)
       THEN cpc' = "idle" /\ cloc' = IdleCloc
       ELSE cpc' = "count" /\ cloc' = cloc
    /\ UNCHANGED <<confVars, ring_buffer_, producer_pos_, cached_consumer_pos_,
                   next_msg_id_, performance_mode_, stats_, pc, loc, calls,
                   call, dispatched, tableVars>>

\* processed > 0: consumer_pos_.store(cons_pos); with statistics off nothing
\* is left to do: return processed
C_StoreCons ==
    /\ cpc = "store_cons"
    /\ consumer_pos_' = cloc.cons_pos
    /\ obs' = Observed(producer_pos_, cloc.cons_pos)
    /\ IF IsNoStats(cloc.mode)
       THEN cpc' = "idle" /\ cloc' = IdleCloc
       ELSE cpc' = "count" /\ cloc' = cloc
    /\ UNCHANGED <<confVars, ring_buffer_, producer_pos_, cached_consumer_pos_,
                   next_msg_id_, performance_mode_, stats_, pc, loc, calls,
                   call, dispatched, tableVars>>

\* mutant: every message of the batch is counted twice
C_Count_Twice ==
    /\ cpc = "count"
    /\ stats_' = [stats_ EXCEPT !.messages_processed = @ + 2 * cloc.processed]
    /\ cpc' = "idle"
    /\ cloc' = IdleCloc
    /\ UNCHANGED <<confVars, ring_buffer_, producer_pos_, cached_consumer_pos_,
                   consumer_pos_, next_msg_id_, performance_mode_, pc, loc,
                   histVars, tableVars>>

\* stats_.messages_processed.fetch_add(processed); return processed
C_Count ==
    /\ cpc = "count"
    /\ stats_' = [stats_ EXCEPT !.messages_processed = @ + cloc.processed]
    /\ cpc' = "idle"
    /\ cloc' = IdleCloc
    /\ UNCHANGED <<confVars, ring_buffer_, producer_pos_, cached_consumer_pos_,
                   consumer_pos_, next_msg_id_, performance_mode_, pc, loc,
                   histVars, tableVars>>

\* ------------------------------------------------------------ control calls
\* performance_mode_.store(mode): while the bus is being set up, or later as
\* one of the switches the application still makes
SetPerformanceMode(mode) ==
    /\ SetupPhase \/ control.switches > 0
    /\ mode # performance_mode_
    /\ performance_mode_' = mode
    /\ control' = IF SetupPhase THEN control
                  ELSE [control EXCEPT !.switches = @ - 1]
    /\ UNCHANGED <<MCCC_QUEUE_DEPTH, MCCC_SINGLE_PRODUCER, budget, levels, ring_buffer_, producer_pos_,
                   cached_consumer_pos_, consumer_pos_, next_msg_id_, stats_, pc,
                   loc, cpc, cloc, histVars, tableVars>>

\* error_callback_.store(callback), while the bus is being set up
SetErrorCallback(callback) ==
    /\ SetupPhase
    /\ control.callbacks > 0
    /\ callback # error_callback_
    /\ error_callback_' = callback
    /\ control' = [control EXCEPT !.callbacks = @ - 1]
    /\ UNCHANGED <<MCCC_QUEUE_DEPTH, MCCC_SINGLE_PRODUCER, budget, levels, progVars, pc, loc, cpc, cloc,
                   histVars, callback_table_, next_callback_id_, handles,
                   subscribed, returned, handles_, component, resets>>

\* mutant: Subscribe gives up when one entry of the slot is left
FreeEntries_OneLeft(slot) ==
    IF slot.count >= MCCC_MAX_CALLBACKS_PER_TYPE - 1 THEN {}
    ELSE {i \in Entries : ~slot.entries[i].active}

\* the first entry of a slot that is not active, or none
FreeEntries(slot) == {i \in Entries : ~slot.entries[i].active}
FirstFree(slot) == CHOOSE i \in FreeEntries(slot) : \A j \in FreeEntries(slot) : i <= j

\* the body of Subscribe<T>(func) for the alternative T of index type_idx:
\* the callback goes into the first entry that is not active; a full slot
\* returns the handle of callback id -1
\* mutant: Subscribe reads next_callback_id_ and leaves it as it is
Register_SameId(type_idx) ==
    /\ next_callback_id_' = next_callback_id_
    /\ LET slot == callback_table_[type_idx]
       IN IF FreeEntries(slot) # {}
          THEN /\ callback_table_' = [callback_table_ EXCEPT
                      ![type_idx].entries[FirstFree(slot)] =
                          [id |-> next_callback_id_, active |-> TRUE],
                      ![type_idx].count = @ + 1]
               /\ handles' = handles \cup
                      {[type_index |-> type_idx, callback_id |-> next_callback_id_]}
               /\ subscribed' = subscribed \cup
                      {[type_index |-> type_idx, callback_id |-> next_callback_id_]}
               /\ returned' = [op |-> "Subscribe", arg |-> type_idx,
                      value |-> [type_index |-> type_idx,
                                 callback_id |-> next_callback_id_]]
          ELSE /\ callback_table_' = callback_table_
               /\ handles' = handles \cup
                      {[type_index |-> type_idx, callback_id |-> -1]}
               /\ subscribed' = subscribed
               /\ returned' = [op |-> "Subscribe", arg |-> type_idx,
                      value |-> [type_index |-> type_idx, callback_id |-> -1]]

Register(type_idx) ==
    /\ next_callback_id_' = next_callback_id_ + 1
    /\ LET slot == callback_table_[type_idx]
       IN IF FreeEntries(slot) # {}
          THEN /\ callback_table_' = [callback_table_ EXCEPT
                      ![type_idx].entries[FirstFree(slot)] =
                          [id |-> next_callback_id_, active |-> TRUE],
                      ![type_idx].count = @ + 1]
               /\ handles' = handles \cup
                      {[type_index |-> type_idx, callback_id |-> next_callback_id_]}
               /\ subscribed' = subscribed \cup
                      {[type_index |-> type_idx, callback_id |-> next_callback_id_]}
               /\ returned' = [op |-> "Subscribe", arg |-> type_idx,
                      value |-> [type_index |-> type_idx,
                                 callback_id |-> next_callback_id_]]
          ELSE /\ callback_table_' = callback_table_
               /\ handles' = handles \cup
                      {[type_index |-> type_idx, callback_id |-> -1]}
               /\ subscribed' = subscribed
               /\ returned' = [op |-> "Subscribe", arg |-> type_idx,
                      value |-> [type_index |-> type_idx, callback_id |-> -1]]

\* Subscribe<T>(func), called by the application
Subscribe(type_idx) ==
    /\ ~SharedLockHeld
    /\ control.subscriptions > 0
    /\ control' = [control EXCEPT !.subscriptions = @ - 1]
    /\ Register(type_idx)
    /\ UNCHANGED <<MCCC_QUEUE_DEPTH, MCCC_SINGLE_PRODUCER, budget, levels, progVars, pc, loc, cpc, cloc,
                   histVars, error_callback_, handles_, component, resets>>

\* mutant: Unsubscribe takes the first active entry, whatever its id
Matching_AnyActive(slot, handle) == {i \in Entries : slot.entries[i].active}

\* mutant: Unsubscribe does not look at the active flag
Matching_IgnoringActive(slot, handle) ==
    {i \in Entries : slot.entries[i].id = handle.callback_id}

\* the entries of a slot that Unsubscribe(handle) matches
Matching(slot, handle) ==
    {i \in Entries : slot.entries[i].active /\ slot.entries[i].id = handle.callback_id}

\* the handles Unsubscribe is called with: those Subscribe has returned, one
\* of a type index out of range, one of an id not issued yet, and one of the
\* id -1 of a failed Subscribe
HandleInputs ==
    handles \cup {[type_index |-> MCCC_MAX_MESSAGE_TYPES, callback_id |-> 1],
                  [type_index |-> 0, callback_id |-> next_callback_id_],
                  [type_index |-> 0, callback_id |-> -1]}

\* what Unsubscribe(handle) returns: false for a type index out of range or
\* without an active entry of that id
Found(table, handle) ==
    /\ handle.type_index < MCCC_MAX_MESSAGE_TYPES
    /\ Matching(table[handle.type_index], handle) # {}

\* the callback table after Unsubscribe(handle): the first active entry of
\* that id is cleared
Removed(table, handle) ==
    IF Found(table, handle)
    THEN LET slot == table[handle.type_index]
             i == CHOOSE i \in Matching(slot, handle) :
                      \A j \in Matching(slot, handle) : i <= j
         IN [table EXCEPT
                ![handle.type_index].entries[i] = [@ EXCEPT !.active = FALSE],
                ![handle.type_index].count = @ - 1]
    ELSE table

\* Unsubscribe(handle), called by the application
Unsubscribe(handle) ==
    /\ handle.type_index >= MCCC_MAX_MESSAGE_TYPES \/ ~SharedLockHeld
    /\ control.unsubscriptions > 0
    /\ control' = [control EXCEPT !.unsubscriptions = @ - 1]
    /\ callback_table_' = Removed(callback_table_, handle)
    /\ subscribed' = IF Found(callback_table_, handle) THEN subscribed \ {handle}
                     ELSE subscribed
    /\ returned' = [op |-> "Unsubscribe", arg |-> handle,
                    value |-> Found(callback_table_, handle)]
    /\ UNCHANGED <<MCCC_QUEUE_DEPTH, MCCC_SINGLE_PRODUCER, budget, levels, progVars, pc, loc, cpc, cloc,
                   histVars, error_callback_, next_callback_id_, handles,
                   handles_, component, resets>>

\* FixedVector::push_back: a full vector stays as it is
push_back(vector, value) ==
    IF Len(vector) >= MCCC_MAX_SUBSCRIPTIONS_PER_COMPONENT THEN vector
    ELSE Append(vector, value)

\* Component::SubscribeSafe<T> / SubscribeSimple<T>: Subscribe<T> with the
\* wrapped callback; the handle is pushed to handles_ unless its id is -1
SubscribeSafe(type_idx) ==
    /\ ~SharedLockHeld
    /\ component.alive
    /\ component.held
    /\ control.component > 0
    /\ control' = [control EXCEPT !.component = @ - 1]
    /\ Register(type_idx)
    /\ handles_' = IF returned'.value.callback_id # -1
                   THEN push_back(handles_, returned'.value)
                   ELSE handles_
    /\ component' = IF returned'.value.callback_id # -1
                    THEN [component EXCEPT !.made = @ \cup {returned'.value}]
                    ELSE component
    /\ UNCHANGED <<MCCC_QUEUE_DEPTH, MCCC_SINGLE_PRODUCER, budget, levels, progVars, pc, loc, cpc, cloc,
                   histVars, error_callback_, resets>>

\* the callback table after Unsubscribe of the handles of a vector from its
\* n-th element on
RECURSIVE UnsubscribeFrom(_, _, _)
UnsubscribeFrom(table, vector, n) ==
    IF n > Len(vector) THEN table
    ELSE UnsubscribeFrom(Removed(table, vector[n]), vector, n + 1)

\* Component::~Component: Unsubscribe of every handle of handles_
DestroyComponent ==
    /\ component.alive
    /\ component.held
    /\ IF cpc = "callback"
       THEN /\ component' = [component EXCEPT !.held = FALSE]
            /\ UNCHANGED <<callback_table_, subscribed, handles_>>
       ELSE /\ component' = [component EXCEPT !.alive = FALSE, !.held = FALSE]
            /\ callback_table_' = UnsubscribeFrom(callback_table_, handles_, 1)
            /\ subscribed' = subscribed \
                   {handles_[n] : n \in {m \in DOMAIN handles_ :
                                            Found(callback_table_, handles_[m])}}
            /\ handles_' = <<>>
    /\ UNCHANGED <<confVars, progVars, pc, loc, cpc, cloc, histVars,
                   error_callback_, next_callback_id_, handles, returned,
                   resets>>

\* the component's callback returns and `self` is destroyed.  When the
\* application has released its shared_ptr meanwhile, this was the last
\* reference and ~Component runs here, on the consumer thread: it calls
\* Unsubscribe, whose unique_lock of callback_mutex_ is taken by the thread
\* that holds the shared_lock of DispatchMessage.  Locking a shared_mutex the
\* thread already owns is undefined; the thread waits for itself for ever, or
\* lock() throws out of the destructor and the program is terminated.
\* DispatchMessageBareMetal takes no lock, and there the destructor runs.
C_CallbackReturn ==
    /\ cpc = "callback"
    /\ IF component.held
       THEN /\ cpc' = "release"
            /\ UNCHANGED tableVars
       ELSE IF IsBareMetal(cloc.mode)
       THEN /\ cpc' = "release"
            /\ component' = [component EXCEPT !.alive = FALSE]
            /\ callback_table_' = UnsubscribeFrom(callback_table_, handles_, 1)
            /\ subscribed' = subscribed \
                   {handles_[n] : n \in {m \in DOMAIN handles_ :
                                            Found(callback_table_, handles_[m])}}
            /\ handles_' = <<>>
            /\ UNCHANGED <<error_callback_, next_callback_id_, handles, returned,
                           resets>>
       ELSE /\ cpc' \in {"unsubscribe_lock", "terminate"}
            /\ UNCHANGED tableVars
    /\ UNCHANGED <<confVars, progVars, pc, loc, cloc, histVars>>

\* mutant: Reset forgets messages_processed
Reset_ProcessedKept(st) ==
    [ZeroStats EXCEPT !.messages_processed = st.messages_processed]

\* BusStatistics::Reset: a store of 0 to every counter
Reset(st) ==
    [st EXCEPT !.messages_published = 0, !.messages_dropped = 0,
               !.messages_processed = 0, !.processing_errors = 0,
               !.published = [p \in MessagePriority |-> 0],
               !.dropped = [p \in MessagePriority |-> 0],
               !.admission_recheck_count = 0, !.stale_cache_depth_delta = 0]

\* ResetStatistics(): stats_.Reset()
ResetStatistics ==
    /\ control.resets > 0
    /\ control' = [control EXCEPT !.resets = @ - 1]
    /\ stats_' = Reset(stats_)
    /\ resets' = resets + 1
    /\ UNCHANGED <<MCCC_QUEUE_DEPTH, MCCC_SINGLE_PRODUCER, budget, levels, ring_buffer_, producer_pos_,
                   cached_consumer_pos_, consumer_pos_, next_msg_id_,
                   performance_mode_, pc, loc, cpc, cloc, histVars,
                   error_callback_, callback_table_, next_callback_id_, handles,
                   subscribed, returned, handles_, component>>

\* GetStatistics(): the snapshot of the counters; `arg` records (history)
\* the ResetStatistics calls made before it
GetStatistics ==
    /\ control.queries > 0
    /\ control' = [control EXCEPT !.queries = @ - 1]
    /\ returned' = [op |-> "GetStatistics", arg |-> resets, value |-> stats_]
    /\ UNCHANGED <<MCCC_QUEUE_DEPTH, MCCC_SINGLE_PRODUCER, budget, levels, progVars, pc, loc, cpc, cloc,
                   histVars, error_callback_, callback_table_, next_callback_id_,
                   handles, subscribed, handles_, component, resets>>

\* ------------------------------------------------------------ specification
Next ==
    \/ \E t \in Producers : Publish(t)
    \/ \E t \in Producers, priority \in levels \ {"MEDIUM"} :
           PublishWithPriority(t, priority)
    \/ \E t \in Producers, timestamp_us \in Timestamps :
           PublishFast(t, timestamp_us)
    \/ \E t \in Producers : P_AdmLoadProd(t)
    \/ \E t \in Producers : P_AdmLoadCached(t)
    \/ \E t \in Producers : P_AdmLoadCons(t)
    \/ \E t \in Producers : P_AdmAdmit(t)
    \/ \E t \in Producers : P_AdmReject(t)
    \/ \E t \in Producers : P_ClaimLoad(t)
    \/ \E t \in Producers : P_ClaimSeqFree(t)
    \/ \E t \in Producers : P_ClaimSeqFull(t)
    \/ \E t \in Producers : P_CasSuccess(t)
    \/ \E t \in Producers : P_CasFail(t)
    \/ \E t \in Producers : P_CasSpurious(t)
    \/ \E t \in Producers : P_ClaimStore(t)
    \/ \E t \in Producers : P_FetchId(t)
    \/ \E t \in Producers : P_WriteHeader(t)
    \/ \E t \in Producers : P_WritePayload(t)
    \/ \E t \in Producers : P_Release(t)
    \/ \E t \in Producers : P_Published(t)
    \/ ProcessBatch
    \/ C_SeqReady
    \/ C_SeqNotReady
    \/ C_Dispatch
    \/ C_CallbackReturn
    \/ C_Release
    \/ C_StoreCons
    \/ C_Count
    \/ \E mode \in PerformanceMode : SetPerformanceMode(mode)
    \/ \E callback \in ErrorCallbacks : SetErrorCallback(callback)
    \/ \E type_idx \in TypeIndexes : Subscribe(type_idx)
    \/ \E handle \in HandleInputs : Unsubscribe(handle)
    \/ \E type_idx \in TypeIndexes : SubscribeSafe(type_idx)
    \/ DestroyComponent
    \/ ResetStatistics
    \/ GetStatistics

Spec == Init /\ [][Next]_vars

\* the steps of the consumer thread, which calls ProcessBatch again and again
ConsumerStep ==
    \/ ProcessBatch
    \/ C_SeqReady
    \/ C_SeqNotReady
    \/ C_Dispatch
    \/ C_CallbackReturn
    \/ C_Release
    \/ C_StoreCons
    \/ C_Count

\* the steps of a producer that has claimed a slot, up to its return
FinishStep(t) ==
    \/ P_FetchId(t)
    \/ P_WriteHeader(t)
    \/ P_WritePayload(t)
    \/ P_Release(t)
    \/ P_Published(t)

\* the consumer thread keeps running, and a producer that has claimed a slot
\* is not stopped for ever before it has released it
FairSpec ==
    /\ FairInit
    /\ [][Next]_vars
    /\ WF_vars(ConsumerStep)
    /\ \A t \in Producers : WF_vars(FinishStep(t))

\* the steps of a producer inside PublishInternal
ProducerStep(t) ==
    \/ P_AdmLoadProd(t)
    \/ P_AdmLoadCached(t)
    \/ P_AdmLoadCons(t)
    \/ P_AdmAdmit(t)
    \/ P_AdmReject(t)
    \/ P_ClaimLoad(t)
    \/ P_ClaimSeqFree(t)
    \/ P_ClaimSeqFull(t)
    \/ P_CasSuccess(t)
    \/ P_CasFail(t)
    \/ P_CasSpurious(t)
    \/ P_ClaimStore(t)
    \/ FinishStep(t)

\* every producer thread keeps running, and a compare_exchange_weak whose
\* expected value is the value of producer_pos_ does not fail for ever;
\* nothing is asked of the consumer
LockFreeSpec ==
    /\ FairInit
    /\ [][Next]_vars
    /\ \A t \in Producers : WF_vars(ProducerStep(t)) /\ SF_vars(P_CasSuccess(t))

\* ------------------------------------------------------------ properties
\* producer t has won the compare_exchange for loc[t].prod_pos and has not yet
\* stored the slot's sequence
Owns(t) == pc[t] \in {"fetch_id", "write_header", "write_payload", "release"}

\* the slot of call c has been released to the consumer by its producer
Released(c) ==
    \/ call[c].result = "true"
    \/ call[c].result = "pending" /\ pc[c[1]] = "published"

\* the header PublishInternal writes for call c
HeaderOf(c) ==
    [msg_id |-> call[c].msg_id, timestamp_us |-> call[c].timestamp_us,
     sender_id |-> c[1], priority |-> call[c].priority]

\* the slot of call c holds its envelope, ready for the consumer
InRing(c) ==
    LET node == ring_buffer_[SlotOf(call[c].pos)]
    IN /\ node.sequence = U32(call[c].pos + 1)
       /\ node.header = HeaderOf(c)
       /\ node.payload = c

IsDispatched(c) == \E i \in 1 .. Len(dispatched) : dispatched[i].payload = c

Rejected(c) == call[c].result \in {"admission", "slot"}

\* C1 (no loss, no duplication): every envelope dispatched is the message of
\* exactly one Publish call that returns true, at the position that call
\* claimed; no message is dispatched twice; no dispatched envelope stands for
\* a rejected Publish; and an accepted message stays in its slot, not
\* overwritten, until it is dispatched.
NoLossNoDuplication ==
    /\ \A i \in 1 .. Len(dispatched) :
           LET c == dispatched[i].payload
           IN /\ c \in DOMAIN call
              /\ Released(c)
              /\ ~Rejected(c)
              /\ call[c].pos = dispatched[i].pos
    /\ \A i, j \in 1 .. Len(dispatched) :
           i # j => /\ dispatched[i].payload # dispatched[j].payload
                    /\ dispatched[i].pos # dispatched[j].pos
    /\ \A c, d \in DOMAIN call :
           (c # d /\ call[c].pos # -1) => call[c].pos # call[d].pos
    /\ \A c \in DOMAIN call : Released(c) => (IsDispatched(c) \/ InRing(c))
    /\ \A c \in DOMAIN call : Rejected(c) => call[c].pos = -1

\* messages of two racing producers were dispatched and a Publish was rejected
NoLossNoDuplication_Witness ==
    /\ \E i, j \in 1 .. Len(dispatched) :
           dispatched[i].payload[1] # dispatched[j].payload[1]
    /\ \E c \in DOMAIN call : Rejected(c)

\* C2 (envelope integrity): the envelope dispatched for position p is the
\* header and the payload written by the producer that claimed p; the
\* consumer reads a slot only after it has seen sequence = p + 1 there, and
\* no producer owns that slot between that observation and the consumer's
\* release store, so the envelope it reads is never torn or mixed.
EnvelopeIntegrity ==
    /\ \A i \in 1 .. Len(dispatched) :
           LET c == dispatched[i].payload
           IN /\ c \in DOMAIN call
              /\ call[c].pos = dispatched[i].pos
              /\ dispatched[i].header = HeaderOf(c)
    /\ cpc \in {"dispatch", "callback", "release"} =>
           \A t \in Producers :
               Owns(t) => SlotOf(loc[t].prod_pos) # SlotOf(cloc.cons_pos)
    /\ cpc = "dispatch" =>
           /\ ring_buffer_[SlotOf(cloc.cons_pos)].sequence = U32(cloc.cons_pos + 1)
           /\ \E c \in DOMAIN call : call[c].pos = cloc.cons_pos /\ InRing(c)

\* an envelope of one producer was dispatched, and the consumer is about to
\* read an envelope of another one while a producer writes the other slot
EnvelopeIntegrity_Witness ==
    /\ cpc = "dispatch"
    /\ \E t \in Producers : pc[t] = "write_payload"
    /\ Len(dispatched) >= 1
    /\ ring_buffer_[SlotOf(cloc.cons_pos)].header.sender_id
           # dispatched[1].header.sender_id

\* C3 (slot exclusivity): at most one producer is between winning the
\* compare_exchange for a position and its release store, and two producers
\* that own positions p and p + k * CAP never own the same slot at the same
\* time.
SlotExclusivity ==
    \A t, u \in Producers :
        (t # u /\ Owns(t) /\ Owns(u)) =>
            /\ loc[t].prod_pos # loc[u].prod_pos
            /\ SlotOf(loc[t].prod_pos) # SlotOf(loc[u].prod_pos)

\* two producers write their envelopes at the same time, into different slots
SlotExclusivity_Witness ==
    \E t, u \in Producers :
        /\ t # u
        /\ pc[t] = "write_payload"
        /\ pc[u] = "write_header"

\* C4 (depth bound): 0 <= producer_pos_ - consumer_pos_ <= CAP in every
\* reachable state, in any performance mode, also while a batch is being
\* processed.
DepthBound == QueueDepth >= 0 /\ QueueDepth <= MAX_QUEUE_DEPTH

\* C5 (per-producer FIFO): the messages of one producer are dispatched in the
\* order of its Publish calls; when only one producer publishes, the msg_id
\* of the dispatched envelopes is strictly increasing.
PerProducerFifo ==
    /\ \A i, j \in 1 .. Len(dispatched) :
           (i < j /\ dispatched[i].payload[1] = dispatched[j].payload[1])
               => dispatched[i].payload[2] < dispatched[j].payload[2]
    /\ Cardinality({t \in Producers : calls[t] > 0}) <= 1 =>
           \A i, j \in 1 .. Len(dispatched) :
               i < j => dispatched[i].header.msg_id < dispatched[j].header.msg_id

\* a lone producer had a Publish rejected between two accepted ones, and all
\* its accepted messages were dispatched; and, in the other configuration,
\* two messages of one producer were dispatched around one of the other
PerProducerFifo_Witness ==
    \/ /\ Len(dispatched) = 3
       /\ \A t \in Producers \ {1} : calls[t] = 0
       /\ call[<<1, 3>>].result = "admission"
    \/ /\ Len(dispatched) = 3
       /\ dispatched[1].payload = <<1, 1>>
       /\ dispatched[2].payload[1] = 2
       /\ dispatched[3].payload = <<1, 2>>

\* the Publish calls of the fair runs
FairCalls == Producers \X (1 .. MaxOtherCalls)

AcceptedCalls == {c \in DOMAIN call : call[c].result = "true"}

\* C6 (eventual delivery): if every producer that has claimed a slot comes
\* to its release store and the consumer calls ProcessBatch again and again,
\* every message whose Publish returned true is eventually dispatched; and
\* once the producers have stopped, QueueDepth returns to 0 for good, with as
\* many envelopes consumed as Publish calls were accepted.  The consumer
\* calls ProcessBatch again and again when it is at the caller of
\* ProcessBatch again and again: a ProcessBatch that does not return has no
\* next call.
EventualDelivery ==
    []<>(cpc = "idle") =>
        /\ \A c \in FairCalls :
               (c \in DOMAIN call /\ call[c].result = "true") ~> IsDispatched(c)
        /\ <>[](\A t \in Producers : pc[t] = "idle")
               => <>[](/\ QueueDepth = 0
                       /\ Len(dispatched) = Cardinality(AcceptedCalls))

\* the producers have made all their calls, two of them were accepted, and
\* the queue is drained
EventualDelivery_Witness ==
    /\ \A t \in Producers : pc[t] = "idle" /\ budget[t] = 0
    /\ Cardinality(AcceptedCalls) >= 2
    /\ \A c \in AcceptedCalls : IsDispatched(c)
    /\ QueueDepth = 0
    /\ cpc = "idle"

\* the call of producer t returns in this step
Returns(t) == pc[t] # "idle" /\ pc'[t] = "idle"

\* C7 (priority admission): in FULL_FEATURED and NO_STATS mode, a Publish at
\* priority P that runs alone (no other producer in a call, the consumer not
\* in a batch) on a queue of depth d returns true iff d < threshold(P), with
\* the thresholds 60 %, 80 % and 99 % of the capacity for LOW, MEDIUM and
\* HIGH; in FULL_FEATURED mode a rejected call adds one to the drop counter
\* of its priority and an accepted call leaves the drop counters alone.
PriorityAdmission ==
    [][\A t \in Producers :
          (Returns(t) /\ obs[t].quiet /\ loc[t].mode \in {"FULL_FEATURED", "NO_STATS"})
          => LET P == loc[t].priority
                 d == obs[t].entry_depth
                 threshold == CASE P = "LOW" -> (MAX_QUEUE_DEPTH * 60) \div 100
                                [] P = "MEDIUM" -> (MAX_QUEUE_DEPTH * 80) \div 100
                                [] P = "HIGH" -> (MAX_QUEUE_DEPTH * 99) \div 100
                 result == call'[Cur(t)].result
             IN /\ (result = "true") <=> (d < threshold)
                /\ loc[t].mode = "FULL_FEATURED" =>
                       stats_'.dropped =
                           IF result = "true" THEN stats_.dropped
                           ELSE [stats_.dropped EXCEPT ![P] = @ + 1]
                /\ loc[t].mode = "NO_STATS" => stats_' = stats_]_vars

\* a lone producer on a ring of 4 slots (thresholds 2, 3, 3): at depth 2 a
\* LOW Publish was rejected and counted, then a HIGH Publish was accepted
PriorityAdmission_Witness ==
    /\ MCCC_QUEUE_DEPTH = 4
    /\ performance_mode_ = "FULL_FEATURED"
    /\ dispatched = <<>>
    /\ calls = [t \in Producers |-> IF t = 1 THEN 4 ELSE 0]
    /\ call[<<1, 3>>].priority = "LOW" /\ call[<<1, 3>>].result = "admission"
    /\ call[<<1, 4>>].priority = "HIGH" /\ call[<<1, 4>>].result = "true"
    /\ QueueDepth = 3
    /\ stats_.dropped = [p \in MessagePriority |-> IF p = "LOW" THEN 1 ELSE 0]

\* C8 (admission determinism): in the modes with admission control, a
\* Publish is accepted only if the real depth producer_pos_ - consumer_pos_
\* was below the threshold of its priority at some instant between its
\* invocation and its return.
AdmissionDeterminism ==
    [][\A t \in Producers :
          (/\ Returns(t)
           /\ loc[t].mode \in {"FULL_FEATURED", "NO_STATS"}
           /\ call'[Cur(t)].result = "true")
          => obs[t].everBelow]_vars

\* C9 (HIGH is never dropped below its threshold): in FULL_FEATURED mode a
\* HIGH Publish is not rejected when the real depth stayed below the HIGH
\* threshold from its invocation to its return, other producers running
\* concurrently.
HighNeverDropped ==
    [][\A t \in Producers :
          (/\ Returns(t)
           /\ loc[t].mode = "FULL_FEATURED"
           /\ loc[t].priority = "HIGH"
           /\ ~obs[t].everAtOrAbove)
          => call'[Cur(t)].result = "true"]_vars

\* the calls that failed at the slot check
SlotFailures == {c \in DOMAIN call : call[c].result = "slot"}

\* C10 (slot check): a Publish fails at the slot check only if the ring is
\* full at the producer position, that is, the slot of the current
\* producer_pos_ has not been released by the consumer; it never fails while
\* the slot at the current producer position is free.
SlotCheckOnlyWhenFull ==
    \A c \in SlotFailures :
        call[c].check.producer_seq # call[c].check.producer_pos

\* C11 as stated (exactly-full boundary): with admission control, a Publish
\* that runs alone at depth CAP is rejected at every priority; at depth
\* CAP - 1, after the consumer has drained one envelope, a HIGH Publish is
\* admitted, and MEDIUM and LOW stay rejected while the depth is not below
\* their thresholds.
FullBoundary ==
    [][\A t \in Producers :
          (Returns(t) /\ obs[t].quiet /\ loc[t].mode \in {"FULL_FEATURED", "NO_STATS"})
          => LET P == loc[t].priority
                 d == obs[t].entry_depth
                 result == call'[Cur(t)].result
             IN /\ d = MAX_QUEUE_DEPTH => result # "true"
                /\ (d = MAX_QUEUE_DEPTH - 1 /\ P = "HIGH") => result = "true"
                /\ (P # "HIGH" /\ d >= GetThresholdForPriority(P))
                       => result # "true"]_vars

\* C11 (exactly-full boundary, as the code has it): with admission control,
\* a Publish that runs alone at depth CAP or CAP - 1 is rejected by the
\* admission test at every priority, HIGH included, since the HIGH threshold
\* (CAP * 99) / 100 is at most CAP - 1; a HIGH Publish is admitted as soon as
\* the depth is below (CAP * 99) / 100, and MEDIUM and LOW stay rejected
\* while the depth is not below their thresholds.
FullBoundaryRejects ==
    [][\A t \in Producers :
          (Returns(t) /\ obs[t].quiet /\ loc[t].mode \in {"FULL_FEATURED", "NO_STATS"})
          => LET P == loc[t].priority
                 d == obs[t].entry_depth
                 result == call'[Cur(t)].result
             IN /\ d >= MAX_QUEUE_DEPTH - 1 => result = "admission"
                /\ (P = "HIGH" /\ d < (MAX_QUEUE_DEPTH * 99) \div 100)
                       => result = "true"
                /\ (P # "HIGH" /\ d >= GetThresholdForPriority(P))
                       => result = "admission"]_vars

\* a lone producer has filled a ring of 2 slots in BARE_METAL mode; after the
\* switch to a mode with admission control its HIGH Publish was rejected by
\* the admission test at depth CAP
FullBoundaryRejects_Witness ==
    /\ MCCC_QUEUE_DEPTH = 2
    /\ QueueDepth = MAX_QUEUE_DEPTH
    /\ dispatched = <<>> /\ cpc = "idle"
    /\ calls[1] = 3
    /\ call[<<1, 1>>].mode = "BARE_METAL" /\ call[<<1, 1>>].result = "true"
    /\ call[<<1, 2>>].mode = "BARE_METAL" /\ call[<<1, 2>>].result = "true"
    /\ call[<<1, 3>>].mode = "FULL_FEATURED"
    /\ call[<<1, 3>>].priority = "HIGH"
    /\ call[<<1, 3>>].result = "admission"

\* the positions the consumer has released so far: inside a batch its local
\* cons_pos, which consumer_pos_ follows at the end of the batch
ReleasedUpTo ==
    IF cpc \in {"load_seq", "dispatch", "callback", "unsubscribe_lock", "terminate",
               "release", "store_cons"}
    THEN cloc.cons_pos ELSE consumer_pos_

\* the positions claimed and not yet released by the consumer
Unreleased == U32(producer_pos_ - ReleasedUpTo)

\* producer t is the only one that has called Publish
Alone(t) == \A u \in Producers \ {t} : calls[u] = 0

\* C12 (BARE_METAL bypass): in BARE_METAL mode no admission test is made.
\* With a single producer, whatever the priority, the slot check of a
\* Publish succeeds iff fewer than CAP positions are claimed and not yet
\* released by the consumer, a call fails nowhere else, and on an empty bus
\* the first CAP Publish calls are all accepted.
BareMetalBypass ==
    [][\A t \in Producers :
          (Alone(t) /\ loc[t].mode = "BARE_METAL") =>
              /\ (pc[t] = "claim_seq" /\ pc'[t] # "claim_seq")
                     => ((pc'[t] = "claim_cas") <=> (Unreleased < MAX_QUEUE_DEPTH))
              /\ pc[t] # "idle" => pc'[t] \notin {"adm_load_prod", "adm_load_cached",
                                                  "adm_load_cons", "adm_store_cached"}
              /\ (Returns(t) /\ pc[t] # "claim_seq") => call'[Cur(t)].result = "true"
              /\ Returns(t) =>
                     \A n \in 1 .. MAX_QUEUE_DEPTH :
                         (/\ n <= calls[t]
                          /\ \A m \in 1 .. n : call'[<<t, m>>].mode = "BARE_METAL")
                         => call'[<<t, n>>].result = "true"]_vars

\* a lone producer in BARE_METAL mode on a ring of 2 slots: its first two
\* LOW Publish calls were accepted and the third, at depth CAP, failed at
\* the slot check
BareMetalBypass_Witness ==
    /\ MCCC_QUEUE_DEPTH = 2
    /\ calls = [t \in Producers |-> IF t = 1 THEN 3 ELSE 0]
    /\ \A n \in 1 .. 3 : /\ call[<<1, n>>].mode = "BARE_METAL"
                          /\ call[<<1, n>>].priority = "LOW"
    /\ call[<<1, 1>>].result = "true"
    /\ call[<<1, 2>>].result = "true"
    /\ call[<<1, 3>>].result = "slot"
    /\ dispatched = <<>>

\* the calls that have been given a message id
Assigned == {c \in DOMAIN call : call[c].msg_id # 0}

\* C13 (message ids): the id a Publish is given by next_msg_id_.fetch_add is
\* greater than every id given before, by any producer, so ids are unique
\* across envelopes, also with concurrent producers, and strictly increasing
\* over the successive accepted Publish calls of one producer.
MsgIdsUniqueIncreasing ==
    [][\A t \in Producers :
          (pc[t] = "fetch_id" /\ pc'[t] = "write_header") =>
              /\ \A c \in DOMAIN call : call[c].msg_id < call'[Cur(t)].msg_id
              /\ loc'[t].assigned_id = call'[Cur(t)].msg_id
              /\ \A c, d \in Assigned' :
                     c # d => call'[c].msg_id # call'[d].msg_id
              /\ \A c, d \in Assigned' :
                     (c[1] = d[1] /\ c[2] < d[2]) => call'[c].msg_id < call'[d].msg_id]_vars

\* two producers raced on a fresh ring: the one that claimed the later
\* position was given the earlier id
MsgIdsUniqueIncreasing_Witness ==
    /\ Cardinality(Assigned) >= 2
    /\ \E c, d \in Assigned :
           /\ c[1] # d[1]
           /\ call[c].pos = 0 /\ call[d].pos = 1
           /\ call[c].msg_id > call[d].msg_id

\* producer t calls Publish in this step
Calls(t) == calls'[t] = calls[t] + 1

\* C14 (overflow guard): a Publish that reads next_msg_id_ >= the wrap
\* threshold returns false without claiming a slot, without touching the
\* ring or next_msg_id_ and without advancing any statistics counter; in
\* FULL_FEATURED mode with an error callback set it invokes the callback
\* exactly once, with OVERFLOW_DETECTED and the id it read, and otherwise
\* not at all.  A Publish that reads a smaller id is not refused by the
\* guard.  With a single producer no id at or above the threshold is ever
\* assigned and every call after a refused one is refused, so that from
\* next_msg_id_ = threshold - 3 exactly the first three of five calls
\* succeed and the last two are refused.
OverflowGuard ==
    [][\A t \in Producers :
          Calls(t) =>
              LET c == <<t, calls'[t]>>
              IN /\ next_msg_id_ >= MSG_ID_WRAP_THRESHOLD =>
                        /\ pc'[t] = "idle"
                        /\ call'[c].result = "overflow"
                        /\ call'[c].pos = -1 /\ call'[c].msg_id = 0
                        /\ producer_pos_' = producer_pos_
                        /\ ring_buffer_' = ring_buffer_
                        /\ next_msg_id_' = next_msg_id_
                        /\ stats_' = stats_
                        /\ call'[c].reported =
                               IF /\ performance_mode_ = "FULL_FEATURED"
                                  /\ error_callback_ # "nullptr"
                               THEN <<[callback |-> error_callback_,
                                       error |-> "OVERFLOW_DETECTED",
                                       msg_id |-> next_msg_id_]>>
                               ELSE <<>>
                 /\ next_msg_id_ < MSG_ID_WRAP_THRESHOLD =>
                        /\ pc'[t] # "idle"
                        /\ call'[c].result = "pending"
                 /\ Alone(t) =>
                        /\ \A d \in Assigned : call[d].msg_id < MSG_ID_WRAP_THRESHOLD
                        /\ \A n \in 1 .. calls[t] :
                               call[<<t, n>>].result = "overflow"
                                   => call'[c].result = "overflow"]_vars

\* single-threaded, FULL_FEATURED mode with the error callback set, from
\* next_msg_id_ = MSG_ID_WRAP_THRESHOLD - 3: the first three of five Publish
\* calls were accepted, the last two were refused and reported once each, and
\* the counters show three published messages and no drop
OverflowGuard_Witness ==
    /\ calls = [t \in Producers |-> IF t = 1 THEN 5 ELSE 0]
    /\ \A n \in 1 .. 3 :
           /\ call[<<1, n>>].result = "true"
           /\ call[<<1, n>>].msg_id = MSG_ID_WRAP_THRESHOLD - 4 + n
    /\ \A n \in 4 .. 5 :
           /\ call[<<1, n>>].result = "overflow"
           /\ call[<<1, n>>].mode = "FULL_FEATURED"
           /\ call[<<1, n>>].reported =
                  <<[callback |-> "OnError", error |-> "OVERFLOW_DETECTED",
                     msg_id |-> MSG_ID_WRAP_THRESHOLD]>>
    /\ next_msg_id_ = MSG_ID_WRAP_THRESHOLD
    /\ producer_pos_ = 3
    /\ stats_.messages_published = 3
    /\ stats_.messages_dropped = 0

\* producer t goes round the claim loop in this step
Retries(t) == pc[t] = "claim_cas" /\ pc'[t] = "claim_load"

\* C15 as stated (no livelock): a producer repeats the claim loop only after
\* its compare_exchange failed because another producer has advanced
\* producer_pos_ since it was loaded.
RetryOnlyAfterProgress ==
    [][\A t \in Producers : Retries(t) => producer_pos_ # loc[t].prod_pos]_vars

\* C15 (Publish never blocks, as the code has it): a producer repeats the
\* claim loop only after its compare_exchange_weak failed, either spuriously
\* with producer_pos_ unchanged, or because another producer has claimed
\* the position it had loaded; and if the producer threads keep running and
\* a compare_exchange_weak that could succeed does not fail for ever, every
\* Publish call returns, whatever the consumer does.
PublishNeverBlocks ==
    /\ [][\A t \in Producers :
             Retries(t) =>
                 \/ producer_pos_ = loc[t].prod_pos
                 \/ \E d \in DOMAIN call :
                        d[1] # t /\ call[d].pos = loc[t].prod_pos]_vars
    /\ \A t \in Producers : (pc[t] # "idle") ~> (pc[t] = "idle")

\* a producer is about to fail its compare_exchange because the other one
\* has claimed the position it loaded, and the consumer has done nothing
PublishNeverBlocks_Witness ==
    \E t, u \in Producers :
        /\ t # u
        /\ pc[t] = "claim_cas"
        /\ producer_pos_ # loc[t].prod_pos
        /\ call[Cur(u)].pos = loc[t].prod_pos
        /\ cpc = "idle" /\ dispatched = <<>>

\* the bus has been in FULL_FEATURED mode for every Publish and every batch,
\* and its statistics have not been reset
FullFeaturedRun ==
    /\ performance_mode_ = "FULL_FEATURED"
    /\ \A c \in DOMAIN call : call[c].mode = "FULL_FEATURED"
    /\ \A i \in 1 .. Len(dispatched) : dispatched[i].mode = "FULL_FEATURED"
    /\ cpc # "idle" => cloc.mode = "FULL_FEATURED"
    /\ resets = 0

\* the Publish calls that have released their slot and not yet counted it
Uncounted == {t \in Producers : pc[t] = "published"}

\* C16 as stated (statistics consistency, part 1): in FULL_FEATURED mode
\* messages_processed <= messages_published in every reachable state, with
\* Publish and ProcessBatch calls in flight too.
ProcessedAtMostPublished ==
    FullFeaturedRun => stats_.messages_processed <= stats_.messages_published

\* C16 (statistics consistency, part 1, as the code has it): in
\* FULL_FEATURED mode messages_processed exceeds messages_published by at
\* most the number of Publish calls in flight that have released their slot
\* and not yet counted it; with no such call, messages_processed <=
\* messages_published.
ProcessedWithinInFlight ==
    FullFeaturedRun =>
        stats_.messages_processed
            <= stats_.messages_published + Cardinality(Uncounted)

\* the consumer has dispatched and counted a message whose Publish has not
\* yet counted it
ProcessedWithinInFlight_Witness ==
    /\ FullFeaturedRun
    /\ Uncounted # {}
    /\ stats_.messages_published = 0
    /\ stats_.messages_processed = 1

\* no Publish call is in flight
NoPublishInFlight == \A t \in Producers : pc[t] = "idle"

\* the calls the overflow guard has refused
Refused == {c \in DOMAIN call : call[c].result = "overflow"}

\* C17 as stated (statistics consistency, part 2): in FULL_FEATURED mode,
\* whenever no Publish call is in flight, messages_published is the number
\* of Publish calls that returned true and messages_published +
\* messages_dropped is the number of Publish calls made.
PublishedPlusDropped ==
    (FullFeaturedRun /\ NoPublishInFlight) =>
        /\ stats_.messages_published = Cardinality(AcceptedCalls)
        /\ stats_.messages_published + stats_.messages_dropped
               = Cardinality(DOMAIN call)

\* C17 (statistics consistency, part 2, as the code has it): in
\* FULL_FEATURED mode, whenever no Publish call is in flight,
\* messages_published is the number of Publish calls that returned true,
\* messages_dropped is the number of calls rejected by the admission test or
\* the slot check, and their sum is the number of Publish calls made less
\* those the overflow guard refused, which are counted nowhere; for any
\* number of concurrent producers.
PublishedPlusDroppedButRefused ==
    (FullFeaturedRun /\ NoPublishInFlight) =>
        /\ stats_.messages_published = Cardinality(AcceptedCalls)
        /\ stats_.messages_dropped = Cardinality({c \in DOMAIN call : Rejected(c)})
        /\ stats_.messages_published + stats_.messages_dropped
               = Cardinality(DOMAIN call) - Cardinality(Refused)

\* two producers have made their three calls concurrently, two were accepted
\* and one was rejected, and the counters say so
PublishedPlusDroppedButRefused_Witness ==
    /\ FullFeaturedRun /\ NoPublishInFlight
    /\ \A t \in Producers : calls[t] > 0
    /\ Cardinality(DOMAIN call) = 3
    /\ stats_.messages_published = 2
    /\ stats_.messages_dropped = 1

\* the calls that read FULL_FEATURED at their entry
CountedCalls == {c \in DOMAIN call : call[c].mode = "FULL_FEATURED"}

QueueFullReported ==
    [][\A t \in Producers :
          (/\ Returns(t)
           /\ loc[t].mode = "FULL_FEATURED"
           /\ error_callback_ # "nullptr"
           /\ call'[Cur(t)].result \in {"admission", "slot"})
          => /\ stats_'.messages_dropped = stats_.messages_dropped + 1
             /\ stats_'.dropped =
                    [stats_.dropped EXCEPT ![call[Cur(t)].priority] = @ + 1]
             /\ stats_'.messages_published = stats_.messages_published
             /\ stats_'.published = stats_.published
             /\ call'[Cur(t)].reported =
                    <<[callback |-> error_callback_, error |-> "QUEUE_FULL",
                       msg_id |-> obs[t].entry_id]>>]_vars

\* two producers raced in FULL_FEATURED mode with the error callback set:
\* one was accepted and given the id both had read at their entry, the other
\* failed at the slot check and reported QUEUE_FULL with that id, and the
\* drop was counted for HIGH only
QueueFullReported_Witness ==
    \E c, d \in DOMAIN call :
        /\ call[c].result = "slot"
        /\ call[c].mode = "FULL_FEATURED"
        /\ call[c].priority = "HIGH"
        /\ call[c].reported =
               <<[callback |-> "OnError", error |-> "QUEUE_FULL", msg_id |-> 1]>>
        /\ call[d].result = "true" /\ call[d].msg_id = 1
        /\ stats_.messages_dropped = 1
        /\ stats_.dropped = [p \in MessagePriority |-> IF p = "HIGH" THEN 1 ELSE 0]

\* the consumer hands an envelope to DispatchMessage in this step
Dispatches == Len(dispatched') = Len(dispatched) + 1

\* C20 (typed dispatch): when ProcessBatch drains an envelope whose payload
\* holds alternative k, the callbacks invoked with it are exactly the
\* subscriptions in force for k at that moment (subscribed and not since
\* unsubscribed), each invoked once, in ascending order of their table
\* entries; no subscription of another alternative is invoked.
TypedDispatch ==
    [][Dispatches =>
          LET e == dispatched'[Len(dispatched')]
              k == e.payload[2] % MCCC_MAX_MESSAGE_TYPES
              inv == e.invoked
          IN /\ \A h \in subscribed :
                    h.type_index = k =>
                        Cardinality({n \in DOMAIN inv : inv[n].id = h.callback_id}) = 1
             /\ \A n \in DOMAIN inv :
                    /\ [type_index |-> k, callback_id |-> inv[n].id] \in subscribed
                    /\ inv[n].type_index = k
                    /\ callback_table_[k].entries[inv[n].entry].id = inv[n].id
             /\ \A n, m \in DOMAIN inv : n < m => inv[n].entry < inv[m].entry]_vars

\* two callbacks were subscribed for one alternative: its message was
\* dispatched to both, in the order of their entries, and the message of the
\* other alternative to none of them
TypedDispatch_Witness ==
    /\ Len(dispatched) = 2
    /\ index(dispatched[1].payload) # index(dispatched[2].payload)
    /\ Len(dispatched[1].invoked) = 2
    /\ dispatched[1].invoked[1].entry = 0
    /\ dispatched[1].invoked[2].entry = 1
    /\ dispatched[2].invoked = <<>>

\* an Unsubscribe call returns in this step
Unsubscribes == control'.unsubscriptions = control.unsubscriptions - 1

\* the handles of the subscriptions that an Unsubscribe has ended
Unsubscribed == {h \in handles : h.callback_id # -1 /\ h \notin subscribed}

\* C21 (unsubscribe stops the callback): in the modes other than BARE_METAL,
\* once Unsubscribe(h) has returned true, whatever the producers and the
\* consumer were doing at that time, the table entry of h is not active and
\* no envelope whose dispatch starts afterwards is handed to the callback of
\* h, while every subscription still in force for the type of the envelope
\* is invoked.
UnsubscribeStopsCallback ==
    [][/\ (Unsubscribes /\ returned'.op = "Unsubscribe" /\ returned'.value = TRUE)
          => /\ returned'.arg \in Unsubscribed'
             /\ \A i \in Entries :
                    LET entry == callback_table_'[returned'.arg.type_index].entries[i]
                    IN entry.active => entry.id # returned'.arg.callback_id
       /\ (Dispatches /\ cloc.mode # "BARE_METAL")
          => LET e == dispatched'[Len(dispatched')]
                 k == index(e.payload)
             IN /\ \A n \in DOMAIN e.invoked :
                       [type_index |-> k, callback_id |-> e.invoked[n].id]
                           \notin Unsubscribed
                /\ \A h \in subscribed :
                       h.type_index = k =>
                           \E n \in DOMAIN e.invoked :
                               e.invoked[n].id = h.callback_id]_vars

\* two callbacks were subscribed for one alternative and the first was
\* unsubscribed before the consumer dispatched the envelope of that
\* alternative: the envelope went to the second callback only
UnsubscribeStopsCallback_Witness ==
    /\ cpc = "release"
    /\ returned.op = "Unsubscribe"
    /\ returned.value = TRUE
    /\ Len(dispatched) = 1
    /\ dispatched[1].mode # "BARE_METAL"
    /\ returned.arg.type_index = index(dispatched[1].payload)
    /\ Len(dispatched[1].invoked) = 1
    /\ dispatched[1].invoked[1].entry = 1
    /\ dispatched[1].invoked[1].id # returned.arg.callback_id
    /\ control.unsubscriptions = 0

\* C22 (invalid handle): Unsubscribe(handle) returns false and leaves the
\* callback table as it is whenever the handle is not that of a subscription
\* in force: its type index is out of range, its id was never issued or is
\* the id -1 of a failed Subscribe, or the subscription was unsubscribed
\* before.
UnsubscribeInvalidHandle ==
    [][(Unsubscribes /\ returned'.op = "Unsubscribe" /\ returned'.arg \notin subscribed)
          => /\ returned'.value = FALSE
             /\ callback_table_' = callback_table_
             /\ subscribed' = subscribed]_vars

\* a handle Subscribe had returned was unsubscribed, and a second Unsubscribe
\* of it has returned false
UnsubscribeInvalidHandle_Witness ==
    /\ returned.op = "Unsubscribe"
    /\ returned.value = FALSE
    /\ returned.arg \in Unsubscribed
    /\ control.unsubscriptions = 0

\* a Subscribe call returns in this step
Subscribes == control'.subscriptions = control.subscriptions - 1

\* the entries of the slot of type index k that are active in table
ActiveEntries(table, k) == {i \in Entries : table[k].entries[i].active}

\* C23 (subscription capacity): Subscribe<T> returns a handle of an id other
\* than -1, and activates exactly one entry, if and only if fewer than
\* MCCC_MAX_CALLBACKS_PER_TYPE subscriptions are in force for T; with that
\* many in force it returns the id -1 and leaves the table as it is, so that
\* every subscription of every type stays active; and once one of them has
\* been unsubscribed a Subscribe<T> succeeds again.
SubscribeUntilFull ==
    [][(Subscribes /\ returned'.op = "Subscribe")
          => LET k == returned'.arg
                 h == returned'.value
                 inForce == {x \in subscribed : x.type_index = k}
             IN /\ h.type_index = k
                /\ Cardinality(ActiveEntries(callback_table_, k)) = Cardinality(inForce)
                /\ (h.callback_id # -1)
                       <=> (Cardinality(inForce) < MCCC_MAX_CALLBACKS_PER_TYPE)
                /\ h.callback_id # -1 =>
                       /\ h \notin handles
                       /\ subscribed' = subscribed \cup {h}
                       /\ \E i \in Entries \ ActiveEntries(callback_table_, k) :
                              /\ ActiveEntries(callback_table_', k)
                                     = ActiveEntries(callback_table_, k) \cup {i}
                              /\ callback_table_'[k].entries[i].id = h.callback_id
                              /\ \A j \in Entries \ {i} :
                                     callback_table_'[k].entries[j]
                                         = callback_table_[k].entries[j]
                       /\ \A m \in TypeIndexes \ {k} :
                              callback_table_'[m] = callback_table_[m]
                /\ h.callback_id = -1 =>
                       /\ callback_table_' = callback_table_
                       /\ subscribed' = subscribed]_vars

\* a Subscribe was refused while the slot of its alternative was full, one
\* of the subscriptions was unsubscribed, and the next Subscribe for that
\* alternative has succeeded and filled the slot again
SubscribeUntilFull_Witness ==
    /\ returned.op = "Subscribe"
    /\ returned.value.callback_id # -1
    /\ [type_index |-> returned.arg, callback_id |-> -1] \in handles
    /\ \E h \in Unsubscribed : h.type_index = returned.arg
    /\ Cardinality({x \in subscribed : x.type_index = returned.arg})
           = MCCC_MAX_CALLBACKS_PER_TYPE

\* C24 (automatic cleanup): once the component is destroyed, none of the
\* subscriptions it made through SubscribeSafe or SubscribeSimple, however
\* many, is left in force, and no entry of the callback table holds one of
\* them.
ComponentCleanup ==
    ~component.alive =>
        \A h \in component.made :
            /\ h \notin subscribed
            /\ \A i \in Entries :
                   LET entry == callback_table_[h.type_index].entries[i]
                   IN entry.active => entry.id # h.callback_id

\* C25 (batch result): ProcessBatch returns the number n of envelopes it has
\* drained, 0 <= n <= BATCH_PROCESS_SIZE.  It goes on to an envelope exactly
\* when the slot at its position is ready, whether or not a callback is
\* subscribed for it; it changes a slot only to release the one it has just
\* dispatched, consumer_pos_ only in its store, which advances it by n over
\* the n positions dispatched in this batch, and the statistics only by
\* adding n to messages_processed; a call that finds no envelope ready
\* returns 0 and has changed none of them.
BatchResult ==
    [][(cpc' # cpc)
          => LET n == cloc.processed
                 node == ring_buffer_[SlotOf(cloc.cons_pos)]
             IN /\ n \in 0 .. BATCH_PROCESS_SIZE
                /\ cloc.cons_pos = U32(consumer_pos_ + n) \/ cpc \in {"idle", "count"}
                /\ cpc = "load_seq" =>
                       /\ n < BATCH_PROCESS_SIZE
                       /\ (cpc' = "dispatch") <=> (node.sequence = U32(cloc.cons_pos + 1))
                       /\ (cpc' = "idle") <=>
                              (n = 0 /\ node.sequence # U32(cloc.cons_pos + 1))
                /\ cpc = "dispatch" => cpc' \in {"callback", "release"}
                /\ IF cpc = "release"
                   THEN /\ dispatched[Len(dispatched)].pos = cloc.cons_pos
                        /\ ring_buffer_' = [ring_buffer_ EXCEPT
                               ![SlotOf(cloc.cons_pos)].sequence =
                                   U32(cloc.cons_pos + BUFFER_SIZE)]
                        /\ cloc'.processed = n + 1
                   ELSE ring_buffer_' = ring_buffer_
                /\ IF cpc = "store_cons"
                   THEN /\ n >= 1
                        /\ consumer_pos_' = U32(consumer_pos_ + n)
                        /\ Len(dispatched) >= n
                        /\ \A j \in 1 .. n :
                               dispatched[Len(dispatched) - n + j].pos
                                   = U32(consumer_pos_ + j - 1)
                        /\ Len(dispatched) > n =>
                               dispatched[Len(dispatched) - n].pos
                                   = U32(consumer_pos_ - 1)
                   ELSE consumer_pos_' = consumer_pos_
                /\ IF cpc = "count"
                   THEN /\ consumer_pos_ = cloc.cons_pos
                        /\ stats_' = [stats_ EXCEPT !.messages_processed = @ + n]
                   ELSE stats_' = stats_
                /\ cpc' = "idle" =>
                       \/ cpc = "load_seq" /\ n = 0
                       \/ cpc = "store_cons" /\ IsNoStats(cloc.mode)
                       \/ cpc = "count"]_vars

\* a batch has drained BATCH_PROCESS_SIZE envelopes for which no callback
\* was subscribed, has stored consumer_pos_ and is about to count them and
\* return
BatchResult_Witness ==
    /\ cpc = "count"
    /\ cloc.processed = BATCH_PROCESS_SIZE
    /\ Len(dispatched) = BATCH_PROCESS_SIZE
    /\ \A i \in 1 .. Len(dispatched) : dispatched[i].invoked = <<>>
    /\ consumer_pos_ = cloc.cons_pos
    /\ stats_.messages_processed = 0

\* C26 (round trip): the envelope handed to DispatchMessage for a message
\* accepted by Publish, PublishWithPriority or PublishFast carries the
\* payload of that call, with the alternative it was published with, the
\* sender id of the call, its priority (MEDIUM for Publish and PublishFast)
\* and, for PublishFast, the timestamp_us the caller gave; for the other two
\* it carries a reading of the clock.
RoundTrip ==
    \A i \in 1 .. Len(dispatched) :
        LET e == dispatched[i]
            c == e.payload
        IN /\ c \in DOMAIN call
           /\ call[c].result \in {"true", "pending"}
           /\ call[c].pos = e.pos
           /\ index(e.payload) = c[2] % MCCC_MAX_MESSAGE_TYPES
           /\ e.header.sender_id = c[1]
           /\ e.header.msg_id = call[c].msg_id
           /\ e.header.priority = call[c].priority
           /\ call[c].api \in {"Publish", "PublishFast"} => e.header.priority = "MEDIUM"
           /\ call[c].api = "PublishFast" =>
                  /\ call[c].timestamp_us \in Timestamps
                  /\ e.header.timestamp_us = call[c].timestamp_us
           /\ call[c].api # "PublishFast" => e.header.timestamp_us \in ClockReadings

\* a message of PublishFast was dispatched with the caller's timestamp, which
\* is no reading of the clock, and a message of PublishWithPriority with its
\* HIGH priority
RoundTrip_Witness ==
    \E i, j \in 1 .. Len(dispatched) :
        /\ call[dispatched[i].payload].api = "PublishFast"
        /\ dispatched[i].header.timestamp_us = MaxTimestamp
        /\ dispatched[i].header.priority = "MEDIUM"
        /\ call[dispatched[j].payload].api = "PublishWithPriority"
        /\ dispatched[j].header.priority = "HIGH"

ResetOnlyStatistics ==
    [][/\ (resets' = resets + 1) =>
              /\ stats_' = ZeroStats
              /\ UNCHANGED <<ring_buffer_, producer_pos_, cached_consumer_pos_,
                             consumer_pos_, next_msg_id_, performance_mode_,
                             error_callback_, callback_table_, next_callback_id_,
                             pc, loc, cpc, cloc, dispatched>>
       /\ (control'.queries = control.queries - 1) =>
              /\ returned'.op = "GetStatistics"
              /\ returned'.value = stats_
              /\ UNCHANGED <<progVars, error_callback_, callback_table_,
                             next_callback_id_, pc, loc, cpc, cloc, dispatched>>
       /\ (stats_' # stats_) =>
              (resets' = resets + 1 \/ pc' # pc \/ calls' # calls \/ cpc' # cpc)]_vars

\* a Publish was accepted and counted; after the reset, with its message
\* still in the ring, GetStatistics has returned all zeros twice
ResetOnlyStatistics_Witness ==
    /\ resets = 1
    /\ control.queries = 0
    /\ returned.op = "GetStatistics" /\ returned.arg = 1
    /\ returned.value = ZeroStats
    /\ calls[1] = 1 /\ pc[1] = "idle" /\ call[<<1, 1>>].result = "true"
    /\ call[<<1, 1>>].mode = "FULL_FEATURED"
    /\ QueueDepth = 1 /\ cpc = "idle"

\* C29 (position wraparound): the positions and the slots' sequences are
\* kept modulo 2^PosBits, and a round in which producer_pos_ and
\* consumer_pos_ wrap to 0 is like any other round: the envelopes are
\* dispatched at consecutive positions modulo 2^PosBits, each the message
\* accepted at that position; between two batches the depth
\* producer_pos_ - consumer_pos_ is the number of claimed positions not yet
\* drained, the slot of producer_pos_ compares free (sequence =
\* producer_pos_) while the depth is below the capacity, and the slot of
\* consumer_pos_ compares ready (sequence = consumer_pos_ + 1) once the
\* Publish of that position has released it.
PositionWraparound ==
    /\ \A i \in 1 .. Len(dispatched) :
           /\ i > 1 => dispatched[i].pos = U32(dispatched[i - 1].pos + 1)
           /\ dispatched[i].payload \in DOMAIN call
           /\ call[dispatched[i].payload].pos = dispatched[i].pos
    /\ cpc = "idle" =>
           /\ QueueDepth = Cardinality({c \in DOMAIN call : call[c].pos # -1})
                               - Len(dispatched)
           /\ QueueDepth < MAX_QUEUE_DEPTH =>
                  ring_buffer_[SlotOf(producer_pos_)].sequence = producer_pos_
           /\ \A c \in DOMAIN call :
                  (call[c].pos = consumer_pos_ /\ Released(c) /\ ~IsDispatched(c))
                      => ring_buffer_[SlotOf(consumer_pos_)].sequence
                             = U32(consumer_pos_ + 1)

\* the positions have wrapped: the messages accepted at the positions
\* 2^PosBits - 2, 2^PosBits - 1 and 0 were dispatched in this order, and
\* producer_pos_ and consumer_pos_ are 1
PositionWraparound_Witness ==
    /\ Len(dispatched) = 3
    /\ dispatched[1].pos = PosMod - 2
    /\ dispatched[2].pos = PosMod - 1
    /\ dispatched[3].pos = 0
    /\ cpc = "idle"
    /\ consumer_pos_ = 1 /\ producer_pos_ = 1
    /\ Cardinality(AcceptedCalls) = 3

SlotSequenceProtocol ==
    [][LET seq(i) == ring_buffer_[i].sequence
           Shaped(rb) ==
               \A i \in Slots : \/ SlotOf(rb[i].sequence) = i
                                 \/ SlotOf(rb[i].sequence) = SlotOf(i + 1)
       IN /\ Shaped(ring_buffer_) /\ Shaped(ring_buffer_')
          /\ (\A t \in Producers : calls[t] = 0) =>
                 \A i \in Slots :
                     /\ SlotOf(seq(i)) = i
                     /\ U32(seq(i) - producer_pos_) < BUFFER_SIZE
                     /\ producer_pos_ = 0 => seq(i) = i
          /\ \A i \in Slots :
                 (ring_buffer_'[i].sequence # seq(i)) =>
                     \/ /\ SlotOf(seq(i)) = i
                        /\ ring_buffer_'[i].sequence = U32(seq(i) + 1)
                        /\ \E t \in Producers :
                               /\ pc[t] = "release" /\ pc'[t] # "release"
                               /\ loc[t].prod_pos = seq(i)
                               /\ call[Cur(t)].pos = seq(i)
                               /\ \A u \in Producers \ {t} :
                                      pc[u] \in {"fetch_id", "write_header",
                                                 "write_payload", "release"}
                                          => loc[u].prod_pos # seq(i)
                     \/ /\ SlotOf(seq(i)) = SlotOf(i + 1)
                        /\ ring_buffer_'[i].sequence
                               = U32(seq(i) - 1 + BUFFER_SIZE)
                        /\ cpc = "release" /\ cpc' # "release"
                        /\ cloc.cons_pos = U32(seq(i) - 1)
                        /\ Len(dispatched) > 0
                        /\ dispatched[Len(dispatched)].pos = cloc.cons_pos]_vars

\* on a ring of 4 slots the producer has released the positions 0 and 1,
\* the consumer has dispatched position 0 and freed its slot for position 4:
\* the sequences are 4, 2, 2, 3
SlotSequenceProtocol_Witness ==
    /\ MCCC_QUEUE_DEPTH = 4
    /\ ring_buffer_[0].sequence = 4
    /\ ring_buffer_[1].sequence = 2
    /\ ring_buffer_[2].sequence = 2
    /\ ring_buffer_[3].sequence = 3
    /\ Len(dispatched) = 1 /\ dispatched[1].pos = 0

\* C32 (no position skipped): the consumer drains in position order.  While
\* the producer that has claimed position p has not made its release store,
\* neither p nor any position after p has been dispatched, whether the
\* envelopes after p are published or not; a batch that finds the slot of
\* its position not ready ends there and dispatches nothing more; and every
\* envelope dispatched is at the position that follows the one dispatched
\* before it.
NoPositionSkipped ==
    [][/\ \A c \in DOMAIN call' :
              (call'[c].pos # -1 /\ ~Released(c)') =>
                  \A i \in 1 .. Len(dispatched'), k \in 0 .. (BUFFER_SIZE - 1) :
                      dispatched'[i].pos # U32(call'[c].pos + k)
       /\ (/\ cpc = "load_seq" /\ cpc' # cpc
           /\ ring_buffer_[SlotOf(cloc.cons_pos)].sequence # U32(cloc.cons_pos + 1))
              => /\ dispatched' = dispatched
                 /\ ring_buffer_' = ring_buffer_
                 /\ cpc' \in {"store_cons", "idle"}
                 /\ cpc' = "store_cons" => cloc' = cloc
       /\ (Len(dispatched') = Len(dispatched) + 1) =>
              /\ dispatched'[Len(dispatched')].pos = cloc.cons_pos
              /\ Len(dispatched) > 0 =>
                     cloc.cons_pos = U32(dispatched[Len(dispatched)].pos + 1)]_vars

\* a producer has claimed a position and not released it, another one has
\* published the envelope of the next position, and the batch of the
\* consumer is at the first of the two: nothing of the two is dispatched
NoPositionSkipped_Witness ==
    \E t, u \in Producers :
        /\ t # u
        /\ Owns(t)
        /\ calls[u] > 0 /\ Released(Cur(u))
        /\ call[Cur(u)].pos = U32(loc[t].prod_pos + 1)
        /\ ~IsDispatched(Cur(u))
        /\ cpc = "load_seq" /\ cloc.cons_pos = loc[t].prod_pos

\* C33 (admission rejects only at the threshold): in the modes with
\* admission control, a Publish is rejected by the admission test only if
\* the real depth producer_pos_ - consumer_pos_ was at or above the
\* threshold of its priority at some instant between its invocation and its
\* return, whatever the other producers and the consumer do meanwhile.
RejectedOnlyAtThreshold ==
    [][\A t \in Producers :
          (/\ Returns(t)
           /\ loc[t].mode \in {"FULL_FEATURED", "NO_STATS"}
           /\ call'[Cur(t)].result = "admission")
          => obs[t].everAtOrAbove]_vars

\* C34 (no id at or above the wrap threshold): no Publish call is assigned a
\* msg_id >= MSG_ID_WRAP_THRESHOLD and no envelope in the ring or dispatched
\* carries one, and a Publish that is called when next_msg_id_ has reached
\* the threshold does not succeed, also with producers that call Publish
\* concurrently just below the threshold.
NoIdAtWrapThreshold ==
    /\ \A c \in Assigned : call[c].msg_id < MSG_ID_WRAP_THRESHOLD
    /\ \A i \in Slots : ring_buffer_[i].header.msg_id < MSG_ID_WRAP_THRESHOLD
    /\ \A i \in 1 .. Len(dispatched) :
           dispatched[i].header.msg_id < MSG_ID_WRAP_THRESHOLD
    /\ \A t \in Producers :
           (pc[t] # "idle" /\ obs[t].entry_id >= MSG_ID_WRAP_THRESHOLD)
               => call[Cur(t)].result # "true"

DepthWithinThreshold ==
    [][(\A c \in DOMAIN call : call[c].mode # "BARE_METAL") =>
           /\ \A t \in Producers :
                  (pc[t] = "claim_cas" /\ pc'[t] = "fetch_id") =>
                      U32(producer_pos_' - consumer_pos_')
                          <= GetThresholdForPriority(loc[t].priority)
           /\ U32(producer_pos_' - consumer_pos_') < MAX_QUEUE_DEPTH]_vars

\* C37 (a Publish that returns false changes nothing): a Publish returns
\* false only before it has claimed a position, and no step a Publish makes
\* before it has claimed one changes producer_pos_, consumer_pos_, a slot's
\* sequence or envelope, or next_msg_id_: such a call has no position and
\* no msg_id, it has changed statistics counters and the cached consumer
\* position at most, and its message is never dispatched.
RejectedChangesNothing ==
    [][/\ \A t \in Producers :
              /\ (Returns(t) /\ call'[Cur(t)].result # "true")
                     => /\ call'[Cur(t)].result \in {"admission", "slot", "overflow"}
                        /\ call'[Cur(t)].pos = -1
                        /\ call'[Cur(t)].msg_id = 0
              /\ (/\ pc'[t] # pc[t] \/ calls'[t] # calls[t]
                  /\ call'[<<t, calls'[t]>>].pos = -1)
                     => UNCHANGED <<ring_buffer_, producer_pos_, consumer_pos_,
                                    next_msg_id_, dispatched>>
       /\ \A c \in DOMAIN call' :
              call'[c].result \in {"admission", "slot", "overflow"}
                  => ~(IsDispatched(c)')]_vars

\* the queue was full for a producer: its Publish was rejected by the
\* admission test, and after a drain its next Publish was accepted with the
\* message id that follows the one of its last accepted message, and
\* dispatched
RejectedChangesNothing_Witness ==
    \E t \in Producers :
        \E m, n \in 1 .. calls[t] :
            /\ m < n /\ n < calls[t]
            /\ call[<<t, m>>].result = "true"
            /\ call[<<t, n>>].result = "admission"
            /\ call[<<t, n + 1>>].result = "true"
            /\ call[<<t, n + 1>>].msg_id = call[<<t, m>>].msg_id + 1
            /\ IsDispatched(<<t, n + 1>>)
            /\ Alone(t)

\* C38 (msg_id order is not dispatch order): the envelopes dispatched carry
\* pairwise different message ids, and the ids of the envelopes of one
\* producer increase in the order of their dispatch; an envelope dispatched
\* after another one with a greater id comes from another producer.  With
\* two producers there are runs with such a pair.
IdOrderPerProducerOnly ==
    \A i, j \in 1 .. Len(dispatched) :
        i < j =>
            LET first == dispatched[i].header
                second == dispatched[j].header
            IN /\ first.msg_id # second.msg_id
               /\ first.sender_id = second.sender_id
                      => first.msg_id < second.msg_id
               /\ first.msg_id > second.msg_id
                      => /\ first.sender_id # second.sender_id
                         /\ call[dispatched[i].payload].msg_id
                                > call[dispatched[j].payload].msg_id

\* two producers have raced: the consumer has dispatched the envelope of
\* the producer that claimed the first position and took the second id,
\* and after it the envelope with the smaller id
IdOrderPerProducerOnly_Witness ==
    /\ Len(dispatched) >= 2
    /\ \E i \in 1 .. Len(dispatched) - 1 :
           /\ dispatched[i + 1].pos = U32(dispatched[i].pos + 1)
           /\ dispatched[i].header.msg_id = dispatched[i + 1].header.msg_id + 1
           /\ dispatched[i].header.sender_id # dispatched[i + 1].header.sender_id
\* C39 (control calls return): Subscribe, Unsubscribe and the destruction of a
\* Component always return and never stop the consumer: when the last
\* reference to a Component is released while its SubscribeSafe callback
\* runs inside ProcessBatch, ~Component runs on the consumer thread under the
\* shared lock of DispatchMessage, its Unsubscribe gets the lock, the
\* destructor completes and ProcessBatch returns: a consumer that has
\* entered the component's callback is back at the caller of ProcessBatch
\* later on.
DestructorCompletes == (cpc = "callback") ~> (cpc = "idle")

\* C40 (callback ids are never reused): every Subscribe, of the application
\* or of a component, takes the next value of next_callback_id_, whether it
\* finds a free entry or not, so the id of a successful one differs from
\* every id returned before on this bus, for any type; the active entries
\* of the table hold different ids; and an Unsubscribe with a handle whose
\* subscription is no longer in force returns false and leaves the table as
\* it is, also when a later subscription has reused the entry.
CallbackIdsNeverReused ==
    [][/\ ((control'.subscriptions < control.subscriptions
               \/ control'.component < control.component)
           => /\ returned'.op = "Subscribe"
              /\ next_callback_id_' = next_callback_id_ + 1
              /\ returned'.value.callback_id # -1 =>
                     /\ returned'.value.callback_id = next_callback_id_
                     /\ \A h \in handles :
                            h.callback_id # returned'.value.callback_id
                     /\ \A k \in TypeIndexes, i \in Entries :
                            callback_table_[k].entries[i].active =>
                                callback_table_[k].entries[i].id
                                    # returned'.value.callback_id)
       /\ ((control'.unsubscriptions < control.unsubscriptions
               /\ returned'.op = "Unsubscribe"
               /\ returned'.arg \in handles \ subscribed)
           => /\ returned'.value = FALSE
              /\ callback_table_' = callback_table_
              /\ subscribed' = subscribed)]_vars

\* the first subscription of type 0 was unsubscribed, a second one has taken
\* its entry with another id, and an Unsubscribe with the first handle has
\* returned false and left the second one active
CallbackIdsNeverReused_Witness ==
    /\ returned = [op |-> "Unsubscribe",
                   arg |-> [type_index |-> 0, callback_id |-> 1], value |-> FALSE]
    /\ [type_index |-> 0, callback_id |-> 1] \in handles \ subscribed
    /\ callback_table_[0].entries[0] = [id |-> 2, active |-> TRUE]
    /\ callback_table_[0].count = 1
    /\ [type_index |-> 0, callback_id |-> 2] \in subscribed

====
